---- MODULE Spec2Model ----
(***************************************************************************)
(* A model of the SAP daily-checks audit engine:                           *)
(*   - DailyChecksAuditor (audit_checks.py): row classification, the       *)
(*     justification rule (Pass A) and the numeric threshold rules (Pass B)*)
(*   - ScreenshotValidator (screenshot_validator.py): the run_validation   *)
(*     workflow, the per-image analysis loop and the reconciliation of     *)
(*     the extracted values with the values the sheet reports.             *)
(*                                                                         *)
(* Text is a sequence of one-character strings, so that str.strip,         *)
(* str.lower, str.upper, str.replace, the substring tests, float() and     *)
(* the f-string formatting are computed as Python computes them.  Numbers  *)
(* are kept in tenths (one decimal digit): the float 1.5 is 15.            *)
(***************************************************************************)
EXTENDS Integers, Sequences, FiniteSets, TLC

VARIABLES
    workbook,            \* the Document: a sequence of sheets [name, head, rows]
    config,              \* DailyChecksAuditor.config (the Configuration, or None)
    pc,                  \* position of the audit run
    sheet_idx,           \* audit_all_sheets: index of the sheet being audited
    row_idx,             \* audit_sheet: index (in sheet.rows) of the next row
    current_check_type,  \* audit_sheet: the sticky category
    issues,              \* audit_sheet: the local list of findings
    self_issues,         \* DailyChecksAuditor.issues
    metadata,            \* DailyChecksAuditor.metadata, in the order of insertion
    azure_env,           \* the environment: HAS_AZURE, the key, the endpoint
    use_azure,           \* ScreenshotValidator.use_azure
    responses,           \* what the vision service does for each extracted image
    vpc,                 \* position of run_validation
    extracted_images,    \* ScreenshotValidator.extracted_images
    img_idx,             \* analyze_all_images: index of the next image
    analyses,            \* analyze_all_images: the local list of analyses
    self_analyses,       \* ScreenshotValidator.analyses
    an_idx,              \* validate_against_reports: index of the next analysis
    val_issues,          \* validate_against_reports: the local list of issues
    validation_issues,   \* ScreenshotValidator.validation_issues
    vision_calls,        \* images handed to the vision collaborator, in order
    returned,            \* what run_validation returned: [analyses, issues]
    excel_path,          \* the document locator: what the file system holds there
    imported,            \* whether the audit modules could be imported
    op,                  \* the entry point that is running
    outcome,             \* what the entry point gave its caller
    screenshot_stats,    \* DailyChecksAuditor.screenshot_stats
    calls,               \* how many times an entry point has been called
    last_issues,         \* DailyChecksAuditor.issues at the end of the previous call
    frames               \* audit_sheet: the locals of one activation per sheet

vars == <<workbook, config, pc, sheet_idx, row_idx, current_check_type, issues,
          self_issues, metadata, azure_env, use_azure, responses, vpc, extracted_images,
          img_idx, analyses, self_analyses, an_idx, val_issues, validation_issues,
          vision_calls, returned, excel_path, imported, op, outcome,
          screenshot_stats, calls, last_issues, frames>>

auditVars == <<config, pc, sheet_idx, row_idx, current_check_type, issues, self_issues,
               metadata>>
shotVars == <<azure_env, use_azure, responses, vpc, extracted_images, img_idx,
              analyses, self_analyses, an_idx, val_issues, validation_issues,
              vision_calls, returned>>
opVars == <<excel_path, imported, op, outcome, screenshot_stats, calls, last_issues,
           frames>>

-----------------------------------------------------------------------------
(* Text                                                                    *)

\* F(v), with v evaluated once and handed to F as a value
With(v, F(_)) == CHOOSE r \in {F(x) : x \in {v}} : TRUE

\* the non-breaking space U+00A0, one character
NBSP == "nbsp"

\* the characters str.strip() removes
Whitespace == {" ", "\t", "\n", "\r", NBSP}

UpperAlpha == <<"A","B","C","D","E","F","G","H","I","J","K","L","M","N","O","P","Q","R","S","T","U","V","W","X","Y","Z">>
LowerAlpha == <<"a","b","c","d","e","f","g","h","i","j","k","l","m","n","o","p","q","r","s","t","u","v","w","x","y","z">>
DigitChars == <<"0","1","2","3","4","5","6","7","8","9">>

LowerChar(c) ==
    IF \E i \in 1..26 : UpperAlpha[i] = c
    THEN LowerAlpha[CHOOSE i \in 1..26 : UpperAlpha[i] = c]
    ELSE c

UpperChar(c) ==
    IF \E i \in 1..26 : LowerAlpha[i] = c
    THEN UpperAlpha[CHOOSE i \in 1..26 : LowerAlpha[i] = c]
    ELSE c

\* str.lower()
Lower(text) == With(text, LAMBDA s : [i \in 1..Len(s) |-> LowerChar(s[i])])

\* str.upper()
Upper(text) == With(text, LAMBDA s : [i \in 1..Len(s) |-> UpperChar(s[i])])

\* str.strip()
Strip(text) ==
    With(text, LAMBDA s :
        With({i \in 1..Len(s) : s[i] \notin Whitespace}, LAMBDA keep :
            IF keep = {} THEN <<>>
            ELSE SubSeq(s, CHOOSE i \in keep : \A j \in keep : i <= j,
                           CHOOSE i \in keep : \A j \in keep : j <= i)))

\* sub in s
Contains(text, part) ==
    \E s \in {text} : \E sub \in {part} :
        \/ sub = <<>>
        \/ \E i \in 1..(Len(s) - Len(sub) + 1) :
              s[i] = sub[1] /\ SubSeq(s, i, i + Len(sub) - 1) = sub

\* re.search(a + '.*' + b, s): a, then b on the same line, after it
ContainsThen(text, first, second) ==
    \E s \in {text} : \E a \in {first} : \E b \in {second} :
        \E i \in 1..(Len(s) - Len(a) + 1) :
            /\ s[i] = a[1]
            /\ SubSeq(s, i, i + Len(a) - 1) = a
            /\ \E j \in (i + Len(a))..(Len(s) - Len(b) + 1) :
                  /\ s[j] = b[1]
                  /\ SubSeq(s, j, j + Len(b) - 1) = b
                  /\ \A k \in (i + Len(a))..(j - 1) : s[k] # "\n"

\* s.replace(old, new) for a one-character old; new is a text (maybe empty)
RECURSIVE ReplaceFrom(_, _, _, _)
ReplaceFrom(s, i, old, new) ==
    IF i > Len(s) THEN <<>>
    ELSE (IF s[i] = old THEN new ELSE <<s[i]>>) \o ReplaceFrom(s, i + 1, old, new)

ReplaceChar(text, old, new) == With(text, LAMBDA s : ReplaceFrom(s, 1, old, new))

\* str(n) for an int n
RECURSIVE NatToStr(_)
NatToStr(n) ==
    IF n < 10 THEN <<DigitChars[n + 1]>>
    ELSE NatToStr(n \div 10) \o <<DigitChars[(n % 10) + 1]>>

IntToStr(n) == IF n < 0 THEN <<"-">> \o NatToStr(-n) ELSE NatToStr(n)

\* int(x) of a float kept in tenths: truncation toward zero
TruncTenths(t) == IF t < 0 THEN -((-t) \div 10) ELSE t \div 10

\* str(x) of a float kept in tenths: 2000.0, 1.5, -0.5
FloatToStr(t) ==
    LET a == IF t < 0 THEN -t ELSE t
    IN  (IF t < 0 THEN <<"-">> ELSE <<>>)
            \o NatToStr(a \div 10) \o <<".">> \o NatToStr(a % 10)

-----------------------------------------------------------------------------
(* float(): the parse of a text as a number                                *)

IsDigit(c) == \E i \in 1..10 : DigitChars[i] = c

DigitVal(c) == (CHOOSE i \in 1..10 : DigitChars[i] = c) - 1

AllDigits(s) == \A i \in 1..Len(s) : IsDigit(s[i])

RECURSIVE DigitsUpTo(_, _)
DigitsUpTo(s, i) == IF i = 0 THEN 0 ELSE DigitsUpTo(s, i - 1) * 10 + DigitVal(s[i])

\* int(s) for a text of digits; 0 for the empty text
DigitsToNat(text) == With(text, LAMBDA s : DigitsUpTo(s, Len(s)))

RECURSIVE Pow10(_)
Pow10(k) == IF k <= 0 THEN 1 ELSE 10 * Pow10(k - 1)

\* the results of a parse or of an extraction: no value, a finite value in
\* tenths, an infinity or a NaN
NoNumber == [k |-> "none", v |-> 0]
Finite(t) == [k |-> "fin", v |-> t]
Infinity(sign) == [k |-> "inf", v |-> sign]
NotANumber == [k |-> "nan", v |-> 0]

\* "1_000": an underscore is allowed between two digits only
UnderscoresOk(s) ==
    \A i \in 1..Len(s) :
        s[i] = "_" => /\ i > 1 /\ i < Len(s)
                      /\ IsDigit(s[i - 1]) /\ IsDigit(s[i + 1])

\* the index of the first c in s, or 0
IndexOf(s, c) ==
    IF \E i \in 1..Len(s) : s[i] = c
    THEN CHOOSE i \in 1..Len(s) : s[i] = c /\ \A j \in 1..(i - 1) : s[j] # c
    ELSE 0

\* the parts of mantissa [ "e" exponent ]: <<mantissa, exponent, has "e">>
SplitExponent(s) ==
    With(IndexOf(s, "e"), LAMBDA e :
        IF e = 0 THEN <<s, <<>>, FALSE>>
        ELSE <<SubSeq(s, 1, e - 1), SubSeq(s, e + 1, Len(s)), TRUE>>)

\* the parts of digits [ "." digits ]: <<integer digits, fraction digits>>
SplitPoint(mant) ==
    With(IndexOf(mant, "."), LAMBDA dot :
        IF dot = 0 THEN <<mant, <<>>>>
        ELSE <<SubSeq(mant, 1, dot - 1), SubSeq(mant, dot + 1, Len(mant))>>)

\* a text without its leading sign
Unsigned(s) == IF s # <<>> /\ s[1] \in {"-", "+"} THEN Tail(s) ELSE s

\* n * 10^ev in tenths, truncated
Scaled(n, ev) == IF ev >= 0 THEN n * Pow10(ev) ELSE n \div Pow10(-ev)

\* digits [ "." digits ] [ "e" [sign] digits ], value in tenths, truncated
ParseDecimal(text, sign) ==
    With(SplitExponent(text), LAMBDA me :
        With(SplitPoint(me[1]), LAMBDA m :
            With(Unsigned(me[2]), LAMBDA exDig :
                IF /\ AllDigits(m[1]) /\ AllDigits(m[2]) /\ Len(m[1]) + Len(m[2]) > 0
                   /\ (me[3] => exDig # <<>> /\ AllDigits(exDig))
                THEN Finite(sign * Scaled(DigitsToNat(m[1] \o m[2]),
                        (IF me[2] # <<>> /\ me[2][1] = "-" THEN -1 ELSE 1)
                            * DigitsToNat(exDig) - Len(m[2]) + 1))
                ELSE NoNumber)))

\* float(text); NoNumber stands for ValueError
ParseFloat(text) ==
    With(Lower(Strip(text)), LAMBDA s0 :
        With(Unsigned(s0), LAMBDA body :
            With(IF s0 # <<>> /\ s0[1] = "-" THEN -1 ELSE 1, LAMBDA sign :
                IF body \in {<<"i","n","f">>, <<"i","n","f","i","n","i","t","y">>} THEN Infinity(sign)
                ELSE IF body = <<"n","a","n">> THEN NotANumber
                ELSE IF ~UnderscoresOk(body) THEN NoNumber
                ELSE ParseDecimal(ReplaceChar(body, "_", <<>>), sign))))

-----------------------------------------------------------------------------
(* Cells and rows                                                          *)

\* a cell value: absent (None), a string, an int, or a float (n in tenths)
NoneCell == [t |-> "none", s |-> <<>>, n |-> 0]
StrCell(s) == [t |-> "str", s |-> s, n |-> 0]
IntCell(n) == [t |-> "int", s |-> <<>>, n |-> n]
FloatCell(tenths) == [t |-> "float", s |-> <<>>, n |-> tenths]

\* Python's truth value of a cell: None, "" and 0 are false
Truthy(c) ==
    CASE c.t = "none" -> FALSE
      [] c.t = "str"  -> c.s # <<>>
      [] OTHER        -> c.n # 0

\* str(cell)
PyStr(c) ==
    CASE c.t = "none"  -> <<"N","o","n","e">>
      [] c.t = "str"   -> c.s
      [] c.t = "int"   -> IntToStr(c.n)
      [] OTHER         -> FloatToStr(c.n)

\* float(cell) of a number cell, in tenths
CellTenths(c) == IF c.t = "int" THEN c.n * 10 ELSE c.n

\* sep.join(texts[i:])
RECURSIVE JoinFrom(_, _, _)
JoinFrom(texts, i, sep) ==
    IF i > Len(texts) THEN <<>>
    ELSE IF i = Len(texts) THEN texts[i]
    ELSE texts[i] \o sep \o JoinFrom(texts, i + 1, sep)

\* sep.join(texts)
Join(texts, sep) == With(texts, LAMBDA ts : JoinFrom(ts, 1, sep))

\* [str(cell) for cell in row[i:] if cell]
RECURSIVE TruthyTextsFrom(_, _)
TruthyTextsFrom(row, i) ==
    IF i > Len(row) THEN <<>>
    ELSE (IF Truthy(row[i]) THEN <<PyStr(row[i])>> ELSE <<>>)
            \o TruthyTextsFrom(row, i + 1)

\* ' '.join(str(cell) for cell in row if cell).lower()
RowText(row) == Lower(Join(TruthyTextsFrom(row, 1), <<" ">>))

\* get_cell_value: col_idx is 0-based as in the source
get_cell_value(row, col_idx) ==
    IF col_idx < Len(row) THEN row[col_idx + 1] ELSE NoneCell


\* repr(s) of a string: quoted, with Python's escapes
ReprChar(c, quote) ==
    CASE c = "\\"  -> <<"\\", "\\">>
      [] c = "\n"  -> <<"\\", "n">>
      [] c = "\t"  -> <<"\\", "t">>
      [] c = "\r"  -> <<"\\", "r">>
      [] c = NBSP  -> <<"\\", "x", "a", "0">>
      [] c = quote -> <<"\\", c>>
      [] OTHER     -> <<c>>

RECURSIVE ReprCharsFrom(_, _, _)
ReprCharsFrom(s, i, quote) ==
    IF i > Len(s) THEN <<>>
    ELSE ReprChar(s[i], quote) \o ReprCharsFrom(s, i + 1, quote)

ReprStr(s) ==
    With(IF Contains(s, <<"'">>) /\ ~Contains(s, <<"\"">>) THEN "\"" ELSE "'",
         LAMBDA quote : <<quote>> \o ReprCharsFrom(s, 1, quote) \o <<quote>>)

\* repr(cell)
Repr(c) == IF c.t = "str" THEN ReprStr(c.s) ELSE PyStr(c)

\* str(row_list[lo:hi]) if row_list else "": lo, hi are 0-based as in the source
SliceContext(row, lo, hi) ==
    IF row = <<>> THEN <<>>
    ELSE With(SubSeq(row, (IF lo < Len(row) THEN lo ELSE Len(row)) + 1,
                          IF hi < Len(row) THEN hi ELSE Len(row)),
              LAMBDA sl : <<"[">> \o Join([i \in 1..Len(sl) |-> Repr(sl[i])], <<","," ">>)
                              \o <<"]">>)

-----------------------------------------------------------------------------
(* Configuration                                                           *)

\* A Configuration is None or a dict.  thresholds is the dict config['thresholds']
\* as a set of entries, one per metric name, each with an optional 'max'.
\* other says that the dict holds keys besides 'thresholds'.
NoneConfig ==
    [kind |-> "none", hasThresholds |-> FALSE, other |-> FALSE, thresholds |-> {}]

DictConfig(hasThresholds, other, thresholds) ==
    [kind |-> "dict", hasThresholds |-> hasThresholds, other |-> other,
     thresholds |-> thresholds]

\* one entry of config['thresholds']: metric -> {'max': max} or {}
ThresholdEntry(metric, hasMax, max) ==
    [metric |-> metric, hasMax |-> hasMax, max |-> max]

\* Python's truth value of the config: None and {} are false
ConfigTruthy(c) == c.kind = "dict" /\ (c.hasThresholds \/ c.other)

get_threshold(c, metric, default) ==
    IF ConfigTruthy(c) /\ c.hasThresholds
    THEN IF \E e \in c.thresholds : e.metric = metric
         THEN With(CHOOSE e \in c.thresholds : e.metric = metric, LAMBDA e :
                IF e.hasMax THEN e.max ELSE default)
         ELSE default
    ELSE default

-----------------------------------------------------------------------------
(* DailyChecksAuditor: the row predicates                                  *)

\* CHECK_PATTERNS, in the dict's order; each pattern is an alternation of
\* literals <<a>> and of a.*b <<a, b>>
CHECK_PATTERNS == <<
    [name |-> "sm51", alts |-> << <<<<"S","M","5","1">>>>, <<<<"a","p","p","l","i","c","a","t","i","o","n"," ","s","e","r","v","e","r">>, <<"r","u","n","n","i","n","g">>>> >>],
    [name |-> "sm50", alts |-> << <<<<"S","M","5","0">>>>, <<<<"S","M","6","6">>>>, <<<<"w","o","r","k"," ","p","r","o","c","e","s","s">>>> >>],
    [name |-> "smlg", alts |-> << <<<<"S","M","L","G">>>>, <<<<"r","e","s","p","o","n","s","e"," ","t","i","m","e">>>> >>],
    [name |-> "sm21", alts |-> << <<<<"S","M","2","1">>>>, <<<<"s","y","s","t","e","m"," ","l","o","g">>>> >>],
    [name |-> "sm37", alts |-> << <<<<"S","M","3","7">>>>, <<<<"c","a","n","c","e","l","l","e","d">>, <<"j","o","b">>>>, <<<<"f","a","i","l","e","d">>, <<"j","o","b">>>> >>],
    [name |-> "sm12", alts |-> << <<<<"S","M","1","2">>>>, <<<<"o","l","d"," ","l","o","c","k">>>> >>],
    [name |-> "st22", alts |-> << <<<<"S","T","2","2">>>>, <<<<"a","b","a","p">>, <<"d","u","m","p">>>> >>],
    [name |-> "dbacockpit", alts |-> << <<<<"D","B","A","C","O","C","K","P","I","T">>>>, <<<<"d","a","t","a","b","a","s","e">>, <<"p","e","r","f","o","r","m","a","n","c","e">>>> >>],
    [name |-> "sm13", alts |-> << <<<<"S","M","1","3">>>>, <<<<"u","p","d","a","t","e">>, <<"m","o","n","i","t","o","r","i","n","g">>>>, <<<<"f","a","i","l","e","d"," ","u","p","d","a","t","e">>>> >>],
    [name |-> "st02", alts |-> << <<<<"S","T","0","2">>>>, <<<<"b","u","f","f","e","r">>>> >>],
    [name |-> "st03n", alts |-> << <<<<"S","T","0","3","N">>>>, <<<<"w","o","r","k","l","o","a","d">>, <<"m","o","n","i","t","o","r","i","n","g">>>> >>],
    [name |-> "spad", alts |-> << <<<<"S","P","A","D">>>>, <<<<"s","p","o","o","l">>>> >>],
    [name |-> "sm58", alts |-> << <<<<"S","M","5","8">>>>, <<<<"t","r","f","c">>>> >>],
    [name |-> "sost", alts |-> << <<<<"S","O","S","T">>>>, <<<<"f","a","i","l","e","d">>, <<"e","m","a","i","l">>>> >>],
    [name |-> "bop_cmc", alts |-> << <<<<"C","M","C">>>>, <<<<"s","e","r","v","e","r">>, <<"s","t","a","t","u","s">>>> >>],
    [name |-> "nwa", alts |-> << <<<<"N","W","A">>>>, <<<<"s","y","s","t","e","m"," ","o","v","e","r","v","i","e","w">>>> >>] >>

\* the value of a variable that holds None instead of a category
NoCheckType == "None"

\* re.IGNORECASE: the patterns with their letters in lower case, to be
\* matched against a text in lower case
FoldedPatterns ==
    [p \in 1..Len(CHECK_PATTERNS) |->
        [a \in 1..Len(CHECK_PATTERNS[p].alts) |->
            [k \in 1..Len(CHECK_PATTERNS[p].alts[a]) |->
                Lower(CHECK_PATTERNS[p].alts[a][k])]]]

\* re.search(pattern, text, re.IGNORECASE), for a text in lower case
PatternMatches(alts, text) ==
    \E i \in 1..Len(alts) :
        IF Len(alts[i]) = 1
        THEN Contains(text, alts[i][1])
        ELSE ContainsThen(text, alts[i][1], alts[i][2])

\* the indices of the patterns that match the row's text
MatchingPatterns(row) ==
    With(Lower(RowText(row)), LAMBDA text :
        {i \in 1..Len(CHECK_PATTERNS) : PatternMatches(FoldedPatterns[i], text)})

\* a variant: the last matching category wins
identify_check_type_last_match(row) ==
    With(MatchingPatterns(row), LAMBDA hits :
        IF hits = {} THEN NoCheckType
        ELSE CHECK_PATTERNS[CHOOSE i \in hits : \A j \in hits : j <= i].name)

\* identify_check_type (lines 200-207): the first matching category wins
identify_check_type(row) ==
    With(MatchingPatterns(row), LAMBDA hits :
        IF hits = {} THEN NoCheckType
        ELSE CHECK_PATTERNS[CHOOSE i \in hits : \A j \in hits : i <= j].name)

\* a variant: column 3 is the only response column
is_negative_response_col3_only(row) ==
    LET val == get_cell_value(row, 3)
    IN  Truthy(val) /\ Upper(Strip(PyStr(val))) = <<"N">>

\* is_negative_response (lines 215-222)
is_negative_response(row) ==
    \E col_idx \in {3, 4} :
        LET val == get_cell_value(row, col_idx)
        IN  Truthy(val) /\ Upper(Strip(PyStr(val))) = <<"N">>

\* has_justification returns (bool, text)
NoJustification == [has |-> FALSE, text |-> <<>>]

\* a variant: the status text is kept with its surrounding blanks
has_justification_unstripped(row) ==
    With(get_cell_value(row, 6), LAMBDA status :
        IF Truthy(status) /\ PyStr(status) \notin {<<NBSP>>, <<" ">>}
        THEN [has |-> TRUE, text |-> PyStr(status)]
        ELSE NoJustification)

\* has_justification (lines 224-233)
has_justification(row) ==
    With(get_cell_value(row, 6), LAMBDA status :
        With(Strip(PyStr(status)), LAMBDA status_str :
            IF Truthy(status) /\ status_str # <<>> /\ status_str \notin {<<NBSP>>, <<" ">>}
            THEN [has |-> TRUE, text |-> status_str]
            ELSE NoJustification))

\* extract_numeric_value: the value of the first of columns 3, 4, 5 that is a
\* number or parses as one (the column index it returns is never used)
\* val.replace(',', '.').replace(' ', '')
Cleaned(text) == ReplaceChar(ReplaceChar(text, ",", <<".">>), " ", <<>>)

\* what one column gives: a number, or NoNumber when the loop goes on
ColumnValue(val) ==
    CASE val.t = "none" -> NoNumber
      [] val.t = "str"  -> ParseFloat(Cleaned(val.s))
      [] OTHER          -> Finite(CellTenths(val))

\* a variant: a column that does not parse ends the search
RECURSIVE ExtractFrom_no_retry(_, _, _)
ExtractFrom_no_retry(row, cols, i) ==
    IF i > Len(cols) THEN NoNumber
    ELSE With(get_cell_value(row, cols[i]), LAMBDA val :
            IF val.t = "none" THEN ExtractFrom_no_retry(row, cols, i + 1)
            ELSE ColumnValue(val))

RECURSIVE ExtractFrom(_, _, _)
ExtractFrom(row, cols, i) ==
    IF i > Len(cols) THEN NoNumber
    ELSE With(ColumnValue(get_cell_value(row, cols[i])), LAMBDA x :
            IF x.k = "none" THEN ExtractFrom(row, cols, i + 1) ELSE x)

extract_numeric_value(row) == ExtractFrom(row, <<3, 4, 5>>, 1)


-----------------------------------------------------------------------------
(* DailyChecksAuditor.audit_sheet: the findings of one row                 *)

\* rows are enumerated from 6: iter_rows(min_row=6)
FIRST_DATA_ROW == 6

\* a justification shorter than this is brief
BRIEF_LIMIT == 10

\* the defaults handed to get_threshold
DEFAULT_RESP_TIME == 1000
DEFAULT_DUMPS_TODAY == 50
DEFAULT_DUMPS_YESTERDAY == 100

AuditIssue(sheet, row, check_type, severity, message, context) ==
    [sheet |-> sheet, row |-> row, check_type |-> check_type,
     severity |-> severity, message |-> message, context |-> context]

MSG_NO_JUSTIFICATION == <<"N","e","g","a","t","i","v","e"," ","(","N",")"," ","r","e","s","p","o","n","s","e"," ","w","i","t","h","o","u","t"," ","j","u","s","t","i","f","i","c","a","t","i","o","n">>
MSG_BRIEF_PREFIX == <<"N","e","g","a","t","i","v","e"," ","r","e","s","p","o","n","s","e"," ","h","a","s"," ","b","r","i","e","f"," ","j","u","s","t","i","f","i","c","a","t","i","o","n",":"," ">>

\* f'Negative response has brief justification: "{justification}"'
BriefMessage(justification) == MSG_BRIEF_PREFIX \o <<"\"">> \o justification \o <<"\"">>

\* current_check_type or 'unknown'
OrUnknown(check_type) == IF check_type = NoCheckType THEN "unknown" ELSE check_type

\* a variant: a justification of exactly 10 characters is brief too
IsBriefInclusive(justification) == Len(justification) <= BRIEF_LIMIT

\* len(justification) < 10 (line 288)
IsBrief(justification) == Len(justification) < BRIEF_LIMIT

\* lines 273-296: the justification rule
PassA(sheet_name, rowNo, row, cct) ==
    IF ~is_negative_response(row) THEN <<>>
    ELSE With(has_justification(row), LAMBDA j :
            IF ~j.has
            THEN <<AuditIssue(sheet_name, rowNo, OrUnknown(cct), "critical",
                              MSG_NO_JUSTIFICATION, SliceContext(row, 0, 4))>>
            ELSE IF IsBrief(j.text)
            THEN <<AuditIssue(sheet_name, rowNo, OrUnknown(cct), "warning",
                              BriefMessage(j.text), SliceContext(row, 0, 4))>>
            ELSE <<>>)

\* numeric_val > limit, for a float numeric_val and an int limit
NumGt(num, limit) ==
    CASE num.k = "fin" -> num.v > limit * 10
      [] num.k = "inf" -> num.v > 0
      [] OTHER         -> FALSE

\* int(numeric_val) raises OverflowError on an infinity, ValueError on a NaN
IntRaises(num) == num.k # "fin"

\* f'{int(numeric_val)}'
NumIntStr(num) == IF num.k = "fin" THEN IntToStr(TruncTenths(num.v)) ELSE <<>>

\* f'{numeric_val}'
NumStr(num) ==
    CASE num.k = "fin" -> FloatToStr(num.v)
      [] num.k = "inf" -> IF num.v > 0 THEN <<"i","n","f">> ELSE <<"-","i","n","f">>
      [] OTHER         -> <<"n","a","n">>

\* one of the six rules of lines 302-373 on one row: whether it fires,
\* whether building its message raises, and the finding it appends
Trigger(fires, raises, issue) == [fires |-> fires, raises |-> raises, issue |-> issue]

\* lines 304-313
RespTimeTrigger(sheet_name, rowNo, row, row_text, num, cfg) ==
    With(get_threshold(cfg, "response_time_smlg", DEFAULT_RESP_TIME), LAMBDA resp_threshold :
        Trigger(Contains(row_text, <<"r","e","s","p"," ","t","i","m","e">>) /\ NumGt(num, resp_threshold),
                FALSE,
                AuditIssue(sheet_name, rowNo, "smlg", "warning",
                    <<"R","e","s","p","o","n","s","e"," ","t","i","m","e"," ">> \o NumStr(num) \o <<"m","s"," ","e","x","c","e","e","d","s"," ">>
                        \o IntToStr(resp_threshold) \o <<"m","s"," ","t","h","r","e","s","h","o","l","d">>,
                    SliceContext(row, 1, 4))))

\* lines 316-325
DumpsTodayTrigger(sheet_name, rowNo, row_text, num, cfg) ==
    With(get_threshold(cfg, "dumps_today", DEFAULT_DUMPS_TODAY), LAMBDA threshold :
        Trigger(/\ Contains(row_text, <<"d","u","m","p">>) /\ Contains(row_text, <<"t","o","d","a","y">>)
                /\ NumGt(num, threshold),
                IntRaises(num),
                AuditIssue(sheet_name, rowNo, "st22", "warning",
                    <<"H","i","g","h"," ","d","u","m","p"," ","c","o","u","n","t"," ","t","o","d","a","y",":"," ">> \o NumIntStr(num) \o <<" ","(","t","h","r","e","s","h","o","l","d",":"," ">>
                        \o IntToStr(threshold) \o <<")">>,
                    <<>>)))

\* lines 327-336
DumpsYesterdayTrigger(sheet_name, rowNo, row_text, num, cfg) ==
    With(get_threshold(cfg, "dumps_yesterday", DEFAULT_DUMPS_YESTERDAY), LAMBDA threshold :
        Trigger(/\ Contains(row_text, <<"d","u","m","p">>) /\ Contains(row_text, <<"y","e","s","t","e","r","d","a","y">>)
                /\ NumGt(num, threshold),
                IntRaises(num),
                AuditIssue(sheet_name, rowNo, "st22", "warning",
                    <<"H","i","g","h"," ","d","u","m","p"," ","c","o","u","n","t"," ","y","e","s","t","e","r","d","a","y",":"," ">> \o NumIntStr(num) \o <<" ","(","t","h","r","e","s","h","o","l","d",":"," ">>
                        \o IntToStr(threshold) \o <<")">>,
                    <<>>)))

\* lines 339-347
FailedUpdatesTrigger(sheet_name, rowNo, row_text, num) ==
    Trigger(Contains(row_text, <<"f","a","i","l","e","d"," ","u","p","d","a","t","e">>) /\ NumGt(num, 0),
            IntRaises(num),
            AuditIssue(sheet_name, rowNo, "sm13", "critical",
                <<"F","a","i","l","e","d"," ","u","p","d","a","t","e","s"," ","d","e","t","e","c","t","e","d",":"," ">> \o NumIntStr(num), <<>>))

\* lines 350-358
TrfcTrigger(sheet_name, rowNo, row_text, num) ==
    Trigger(/\ Contains(row_text, <<"c","p","i","c","e","r","r">>) \/ Contains(row_text, <<"s","y","s","f","a","i","l">>)
            /\ NumGt(num, 0),
            IntRaises(num),
            AuditIssue(sheet_name, rowNo, "sm58", "critical",
                <<"t","R","F","C"," ","e","r","r","o","r","s"," ","d","e","t","e","c","t","e","d",":"," ">> \o NumIntStr(num), <<>>))

\* lines 361-373
OldLocksTrigger(sheet_name, rowNo, row, row_text, num) ==
    Trigger(/\ \/ Contains(row_text, <<"o","l","d"," ","l","o","c","k">>)
               \/ Contains(row_text, <<"n","u","m","b","e","r"," ","o","f"," ","o","l","d"," ","l","o","c","k","s">>)
            /\ NumGt(num, 0)
            /\ ~has_justification(row).has,
            IntRaises(num),
            AuditIssue(sheet_name, rowNo, "sm12", "warning",
                <<"O","l","d"," ","l","o","c","k","s"," ","p","r","e","s","e","n","t"," ","(">> \o NumIntStr(num) \o <<")"," ","w","i","t","h","o","u","t"," ","e","x","p","l","a","n","a","t","i","o","n">>,
                <<>>))

\* the findings of the rules trigs[i..], in the order of the source, up to
\* the first rule that raises
RECURSIVE RunTriggers(_, _)
RunTriggers(trigs, i) ==
    IF i > Len(trigs) THEN [issues |-> <<>>, raised |-> FALSE]
    ELSE IF ~trigs[i].fires THEN RunTriggers(trigs, i + 1)
    ELSE IF trigs[i].raises THEN [issues |-> <<>>, raised |-> TRUE]
    ELSE With(RunTriggers(trigs, i + 1), LAMBDA rest :
            [issues |-> <<trigs[i].issue>> \o rest.issues, raised |-> rest.raised])

\* the six rules on a row with the numeric value num
Triggers(sheet_name, rowNo, row, row_text, num, cfg) ==
    <<RespTimeTrigger(sheet_name, rowNo, row, row_text, num, cfg),
      DumpsTodayTrigger(sheet_name, rowNo, row_text, num, cfg),
      DumpsYesterdayTrigger(sheet_name, rowNo, row_text, num, cfg),
      FailedUpdatesTrigger(sheet_name, rowNo, row_text, num),
      TrfcTrigger(sheet_name, rowNo, row_text, num),
      OldLocksTrigger(sheet_name, rowNo, row, row_text, num)>>

\* lines 298-373: the numeric threshold rules
PassB(sheet_name, rowNo, row, cfg) ==
    With(extract_numeric_value(row), LAMBDA num :
        IF num.k = "none" THEN [issues |-> <<>>, raised |-> FALSE]
        ELSE With(RowText(row), LAMBDA row_text :
                With(Triggers(sheet_name, rowNo, row, row_text, num, cfg), LAMBDA trigs :
                    RunTriggers(trigs, 1))))

\* not any(cell for cell in row_list)
IsEmptyRow(row) == \A i \in 1..Len(row) : ~Truthy(row[i])

\* a variant: an unlabelled row resets the category
NextCheckType_forgetful(row, cct) == identify_check_type(row)

\* the category after the row: a match replaces it, no match keeps it
NextCheckType(row, cct) ==
    With(identify_check_type(row), LAMBDA check_type :
        IF check_type # NoCheckType THEN check_type ELSE cct)

\* one iteration of the loop of audit_sheet (lines 261-373)
AuditRowResult(sheet_name, rowNo, row, cct, cfg) ==
    IF IsEmptyRow(row) THEN [issues |-> <<>>, raised |-> FALSE, cct |-> cct]
    ELSE With(NextCheckType(row, cct), LAMBDA now :
            With(PassB(sheet_name, rowNo, row, cfg), LAMBDA b :
                [issues |-> PassA(sheet_name, rowNo, row, now) \o b.issues,
                 raised |-> b.raised, cct |-> now]))


-----------------------------------------------------------------------------
(* The Document                                                            *)

\* a row of the fixed layout: the label in column 0, the responses in
\* columns 3 and 4, a value in column 5, the status in column 6
MkRow(label, c3, c4, c5, status) ==
    <<label, NoneCell, NoneCell, c3, c4, c5, status>>

\* the five header rows above the data rows (extract_metadata reads them)
HeadRows == <<
    MkRow(StrCell(<<"S","y","s","t","e","m"," ","N","a","m","e">>), NoneCell, NoneCell, NoneCell, NoneCell),
    MkRow(StrCell(<<"D","a","t","e">>), NoneCell, NoneCell, NoneCell, NoneCell),
    MkRow(StrCell(<<"T","i","m","e">>), NoneCell, NoneCell, NoneCell, NoneCell),
    MkRow(StrCell(<<"P","e","r","f","o","r","m","e","d"," ","B","y">>), NoneCell, NoneCell, NoneCell, NoneCell),
    MkRow(NoneCell, NoneCell, NoneCell, NoneCell, NoneCell) >>

\* a sheet: its name, its header rows 1-5, its rows from row 6 on and its
\* embedded images (sheet._images)
SheetWithImages(name, rows, images) ==
    [name |-> name, head |-> HeadRows, rows |-> rows, images |-> images]

\* a sheet without embedded images
Sheet(name, rows) == SheetWithImages(name, rows, <<>>)

\* every sequence of at most n elements of S
SeqsUpTo(S, n) == UNION {[1..k -> S] : k \in 0..n}

-----------------------------------------------------------------------------
(* DailyChecksAuditor: the audit run                                       *)

\* the dict extract_metadata starts from (lines 176-181)
NoMetadata ==
    [system_name |-> NoneCell, date |-> NoneCell, time |-> NoneCell,
     performed_by |-> NoneCell]

\* one header row (lines 184-196): the lowercase label of column 0 decides
\* which entry takes the value of column 1; the first test that holds wins
MetadataAfterRow(row, meta) ==
    With(IF Truthy(row[1]) THEN Lower(Strip(PyStr(row[1]))) ELSE <<>>, LAMBDA label :
        CASE Contains(label, <<"s","y","s","t","e","m"," ","n","a","m","e">>)  -> [meta EXCEPT !.system_name = row[2]]
          [] Contains(label, <<"d","a","t","e">>)         -> [meta EXCEPT !.date = row[2]]
          [] Contains(label, <<"t","i","m","e">>)         -> [meta EXCEPT !.time = row[2]]
          [] Contains(label, <<"p","e","r","f","o","r","m","e","d"," ","b","y">>) -> [meta EXCEPT !.performed_by = row[2]]
          [] OTHER                             -> meta)

RECURSIVE MetadataUpTo(_, _)
MetadataUpTo(head, i) ==
    IF i = 0 THEN NoMetadata ELSE MetadataAfterRow(head[i], MetadataUpTo(head, i - 1))

\* extract_metadata (lines 174-198): rows 1 to 5
extract_metadata(sheet) == MetadataUpTo(sheet.head, Len(sheet.head))

\* self.metadata[sheet_name] = ... (line 259): a key keeps its place
StoreMetadata(dict, sheet_name, meta) ==
    IF \E i \in 1..Len(dict) : dict[i].sheet = sheet_name
    THEN [i \in 1..Len(dict) |->
            IF dict[i].sheet = sheet_name THEN [sheet |-> sheet_name, meta |-> meta]
            ELSE dict[i]]
    ELSE Append(dict, [sheet |-> sheet_name, meta |-> meta])

\* DailyChecksAuditor.__init__ and load_workbook: nothing audited yet
AuditorInit ==
    /\ pc = "ready"
    /\ sheet_idx = 1
    /\ row_idx = 1
    /\ current_check_type = NoCheckType
    /\ issues = <<>>
    /\ self_issues = <<>>
    /\ metadata = <<>>

\* the sheet audit_sheet is working on
CurSheet == workbook[sheet_idx]

\* the number openpyxl gives the row at index i of sheet.rows
RowNo(i) == FIRST_DATA_ROW + i - 1

\* audit_all_sheets enters audit_sheet for the next sheet (lines 255-259)
BeginSheet ==
    /\ pc = "ready"
    /\ sheet_idx <= Len(workbook)
    /\ pc' = "rows"
    /\ issues' = <<>>
    /\ current_check_type' = NoCheckType
    /\ row_idx' = 1
    /\ metadata' = StoreMetadata(metadata, CurSheet.name, extract_metadata(CurSheet))
    /\ UNCHANGED <<workbook, config, sheet_idx, self_issues, shotVars, opVars>>

\* one iteration of the row loop of audit_sheet (lines 261-373); an
\* exception leaves the loop and audit_sheet
AuditRow ==
    /\ pc = "rows"
    /\ row_idx <= Len(CurSheet.rows)
    /\ \E r \in {AuditRowResult(CurSheet.name, RowNo(row_idx), CurSheet.rows[row_idx],
                                 current_check_type, config)} :
           /\ issues' = issues \o r.issues
           /\ current_check_type' = r.cct
           /\ pc' = IF r.raised THEN "raised" ELSE "rows"
           /\ row_idx' = IF r.raised THEN row_idx ELSE row_idx + 1
    /\ UNCHANGED <<workbook, config, sheet_idx, self_issues, metadata, shotVars, opVars>>

\* audit_sheet returns; audit_all_sheets extends self.issues (lines 375, 381)
EndSheet ==
    /\ pc = "rows"
    /\ row_idx > Len(CurSheet.rows)
    /\ self_issues' = self_issues \o issues
    /\ sheet_idx' = sheet_idx + 1
    /\ pc' = "ready"
    /\ UNCHANGED <<workbook, config, row_idx, current_check_type, issues, metadata,
                   shotVars, opVars>>

\* audit_all_sheets returns
AuditDone ==
    /\ pc = "ready"
    /\ sheet_idx > Len(workbook)
    /\ pc' = "done"
    /\ UNCHANGED <<workbook, config, sheet_idx, row_idx, current_check_type, issues,
                   self_issues, metadata, shotVars, opVars>>

NextAudit == BeginSheet \/ AuditRow \/ EndSheet \/ AuditDone

-----------------------------------------------------------------------------
(* DailyChecksAuditor: the report                                          *)

\* The report is the list generate_report joins with newlines: one record
\* for each element it appends.  kind names the element, sheet the sheet it
\* is about, tag its status or category, nums and texts the numbers and the
\* texts it is formatted from.  The file name in the title is left out.
ReportLine(kind, sheet, tag, nums, texts) ==
    [kind |-> kind, sheet |-> sheet, tag |-> tag, nums |-> nums, texts |-> texts]

\* report.append("")
Blank == ReportLine("blank", "", "", <<>>, <<>>)

\* a line "## ..." , "### ..." or "#### ..."
Heading(title) == ReportLine("heading", "", title, <<>>, <<>>)

\* the longest context shown in full (line 435)
CONTEXT_LIMIT == 80

\* sum(1 for i in self.issues if i.severity == ...) (lines 392-393)
SeverityCount(list, severity) == Len(SelectSeq(list, LAMBDA i : i.severity = severity))

\* lines 395-404: the executive summary
SummaryLines(sheetnames, list, stats) ==
    <<Heading("Executive Summary"),
      ReportLine("systems", "", "", <<Len(sheetnames)>>, <<>>),
      ReportLine("total", "", "", <<Len(list)>>, <<>>),
      ReportLine("counts", "", "",
                 <<SeverityCount(list, "critical"), SeverityCount(list, "warning")>>, <<>>)>>
    \o (IF stats.analyzed > 0
        THEN <<ReportLine("screenshots", "", "", <<stats.analyzed, stats.issues>>, <<>>)>>
        ELSE <<>>)
    \o <<Blank>>
    \o (IF Len(list) = 0 THEN <<ReportLine("all_passed", "", "", <<>>, <<>>)>> ELSE <<>>)

\* the text of a metadata value, 'N/A' for a value that is false
OrNA(cell) == IF Truthy(cell) THEN PyStr(cell) ELSE <<"N","/","A">>

\* str(meta['date'])[:10]
DateStr(cell) ==
    IF Truthy(cell) THEN SubSeq(PyStr(cell), 1, IF Len(PyStr(cell)) < 10 THEN Len(PyStr(cell)) ELSE 10)
    ELSE <<"N","/","A">>

\* lines 407-414: the table of the header metadata
MetadataLines(dict) ==
    <<Heading("Check Metadata"),
      ReportLine("table_head", "", "", <<>>, <<>>),
      ReportLine("table_rule", "", "", <<>>, <<>>)>>
    \o [i \in 1..Len(dict) |->
          ReportLine("table_row", dict[i].sheet, "", <<>>,
                     <<DateStr(dict[i].meta.date), OrNA(dict[i].meta.time),
                       OrNA(dict[i].meta.performed_by)>>)]
    \o <<Blank>>

\* line 433 and line 441
IssueLine(issue) ==
    ReportLine("issue", issue.sheet, issue.check_type, <<issue.row>>, <<issue.message>>)

\* lines 434-435: the context, cut at 80 characters
ContextLine(issue) ==
    ReportLine("context", issue.sheet, "", <<>>,
               <<IF Len(issue.context) > CONTEXT_LIMIT
                 THEN SubSeq(issue.context, 1, CONTEXT_LIMIT) \o <<".",".",".">>
                 ELSE issue.context>>)

\* lines 430-436: the critical findings from the i-th on, each followed by
\* its context when it has one
RECURSIVE CriticalLinesFrom(_, _)
CriticalLinesFrom(critical, i) ==
    IF i > Len(critical) THEN <<>>
    ELSE <<IssueLine(critical[i])>>
         \o (IF critical[i].context # <<>> THEN <<ContextLine(critical[i])>> ELSE <<>>)
         \o CriticalLinesFrom(critical, i + 1)

\* a variant: a sheet whose findings are all warnings is shown as passed
SheetStatus_lenient(critical) == IF critical # <<>> THEN "[CRITICAL]" ELSE "[OK]"

\* line 426
SheetStatus(critical) == IF critical # <<>> THEN "[CRITICAL]" ELSE "[WARNING]"

\* a variant: the warnings are listed the other way round
WarningLines_reversed(warnings) ==
    [i \in 1..Len(warnings) |-> IssueLine(warnings[Len(warnings) + 1 - i])]

\* lines 438-442
WarningLines(warnings) == [i \in 1..Len(warnings) |-> IssueLine(warnings[i])]

\* a variant: a sheet without findings is left out of the report
PassedSection_omitted(sheet_name) == <<>>

\* lines 443-445
PassedSection(sheet_name) ==
    <<ReportLine("sheet", sheet_name, "[OK]", <<>>, <<>>),
      ReportLine("passed", sheet_name, "", <<>>, <<>>)>>

\* lines 420-445: the section of one sheet
SheetSection(sheet_name, list) ==
    With(SelectSeq(list, LAMBDA i : i.sheet = sheet_name), LAMBDA sheet_issues :
        IF sheet_issues # <<>>
        THEN With(SelectSeq(sheet_issues, LAMBDA i : i.severity = "critical"), LAMBDA critical :
             With(SelectSeq(sheet_issues, LAMBDA i : i.severity = "warning"), LAMBDA warnings :
                <<ReportLine("sheet", sheet_name, SheetStatus(critical), <<>>, <<>>),
                  ReportLine("found", sheet_name, "",
                             <<Len(sheet_issues), Len(critical), Len(warnings)>>, <<>>)>>
                \o (IF critical # <<>>
                    THEN <<Heading("Critical Issues")>> \o CriticalLinesFrom(critical, 1)
                         \o <<Blank>>
                    ELSE <<>>)
                \o (IF warnings # <<>>
                    THEN <<Heading("Warnings")>> \o WarningLines(warnings) \o <<Blank>>
                    ELSE <<>>)))
        ELSE PassedSection(sheet_name))

\* lines 419-445: the sections of the sheets from the i-th on
RECURSIVE SectionsFrom(_, _, _)
SectionsFrom(sheetnames, list, i) ==
    IF i > Len(sheetnames) THEN <<>>
    ELSE SheetSection(sheetnames[i], list) \o SectionsFrom(sheetnames, list, i + 1)

\* lines 447-461
RecommendationLines(list) ==
    IF list = <<>> THEN <<>>
    ELSE <<Heading("Recommendations")>>
         \o (IF SeverityCount(list, "critical") > 0
             THEN <<Heading("Immediate Actions Required")>>
                  \o [k \in 1..3 |-> ReportLine("action", "", "", <<k>>, <<>>)]
             ELSE <<>>)
         \o (IF SeverityCount(list, "warning") > 0
             THEN <<Heading("Follow-up Items")>>
                  \o [k \in 1..3 |-> ReportLine("follow_up", "", "", <<k>>, <<>>)]
             ELSE <<>>)

\* workbook.sheetnames
SheetNames(wb) == [i \in 1..Len(wb) |-> wb[i].name]

\* generate_report (lines 383-463), at the time now
generate_report(sheetnames, list, dict, stats, now) ==
    <<ReportLine("title", "", "", <<>>, <<>>),
      ReportLine("generated", "", "", <<now>>, <<>>)>>
    \o SummaryLines(sheetnames, list, stats)
    \o MetadataLines(dict)
    \o <<Heading("Per-System Findings")>>
    \o SectionsFrom(sheetnames, list, 1)
    \o RecommendationLines(list)

-----------------------------------------------------------------------------
(* ScreenshotValidator: the vision service and its answers                 *)

\* an Optional[int]: None, or an int
NoValue == [some |-> FALSE, v |-> 0]
Some(n) == [some |-> TRUE, v |-> n]

\* ExtractedScreenshotData.model_dump(); successful_backups and
\* total_entries, which the validator never reads, are left at None
ExtractedScreenshotData(failed_data_backup, failed_log_backup, failed_jobs, has_errors, error_indicators) ==
    [failed_data_backup |-> failed_data_backup, failed_log_backup |-> failed_log_backup,
     failed_jobs |-> failed_jobs, successful_backups |-> NoValue,
     total_entries |-> NoValue, has_errors |-> has_errors,
     error_indicators |-> error_indicators]

\* ScreenshotAnalysisResponse.model_dump()
ScreenshotAnalysisResponse(type, summary, data) ==
    [type |-> type, summary |-> summary, data |-> data]

\* the place of message.parsed when the service gave none
NoParsed ==
    ScreenshotAnalysisResponse("", <<>>,
        ExtractedScreenshotData(NoValue, NoValue, NoValue, FALSE, <<>>))

\* what one call of beta.chat.completions.parse does: it raises, or it
\* answers with a refusal, without parsed content, or with parsed content
ServiceError == [kind |-> "error", parsed |-> NoParsed]
Refusal == [kind |-> "refusal", parsed |-> NoParsed]
Unparsed == [kind |-> "unparsed", parsed |-> NoParsed]
Parsed(response) == [kind |-> "parsed", parsed |-> response]

\* the call passes no timeout (lines 157-172): whether it returns at all is
\* left to the client library and the service; this is the call that
\* never returns
NeverReturns == [kind |-> "hang", parsed |-> NoParsed]

\* a dict, or None
None == [none |-> TRUE, value |-> NoParsed]
Dict(value) == [none |-> FALSE, value |-> value]

\* a variant: the key alone configures the backend
AzureConfigured_key_only(env) == env.key

\* HAS_AZURE and azure_key and azure_endpoint (line 117)
AzureConfigured(env) == env.has_azure /\ env.key /\ env.endpoint

\* analyze_image_with_azure (lines 145-188), given whether the client
\* exists and what the service does with the call
analyze_image_with_azure(azure_client, response) ==
    IF ~azure_client THEN None
    ELSE CASE response.kind = "error"   -> None
           [] response.kind = "refusal" -> None
           [] response.kind = "parsed"  -> Dict(response.parsed)
           [] OTHER                     -> None

-----------------------------------------------------------------------------
(* ScreenshotValidator: images and analyses                                *)

\* f"{sheet_name}_img_{idx}"
ImageId(sheet_name, idx) == [sheet |-> sheet_name, idx |-> idx]

\* an embedded image: whether img._data() gives its bytes, and the bytes
Image(readable, data) == [readable |-> readable, data |-> data]

\* lines 133-140: the images of one sheet whose bytes can be read
SheetImages(sheet) ==
    SelectSeq([i \in 1..Len(sheet.images) |->
                  [sheet_name |-> sheet.name, image_id |-> ImageId(sheet.name, i - 1),
                   image_data |-> sheet.images[i].data,
                   readable |-> sheet.images[i].readable]],
              LAMBDA e : e.readable)

RECURSIVE ImagesFrom(_, _)
ImagesFrom(wb, i) ==
    IF i > Len(wb) THEN <<>> ELSE SheetImages(wb[i]) \o ImagesFrom(wb, i + 1)

\* extract_images_from_excel (lines 126-143)
extract_images_from_excel(wb) == ImagesFrom(wb, 1)

ScreenshotAnalysis(image_name, sheet_name, analysis_type, extracted_data, raw_response) ==
    [image_name |-> image_name, sheet_name |-> sheet_name,
     analysis_type |-> analysis_type, extracted_data |-> extracted_data,
     raw_response |-> raw_response]

\* a variant: a failed image empties the list
AppendAnalysis_abort(list, image, result) ==
    IF result.none THEN <<>>
    ELSE Append(list, ScreenshotAnalysis(image.image_id, image.sheet_name,
                    result.value.type, result.value.data, result.value.summary))

\* lines 201-209: an analysis is appended when the result is not None
AppendAnalysis(list, image, result) ==
    IF result.none THEN list
    ELSE Append(list, ScreenshotAnalysis(image.image_id, image.sheet_name,
                    result.value.type, result.value.data, result.value.summary))

-----------------------------------------------------------------------------
(* ScreenshotValidator: reported values and reconciliation                 *)

\* isinstance(cell, (int, float))
IsNumberCell(c) == c.t \in {"int", "float"}

\* int(cell) of the first number cell of the row, None when it has none
FirstNumber(row) ==
    With({i \in 1..Len(row) : IsNumberCell(row[i])}, LAMBDA at :
        IF at = {} THEN NoValue
        ELSE Some(TruncTenths(CellTenths(row[CHOOSE i \in at : \A j \in at : i <= j]))))

\* line 236: the row counts toward the failed jobs
MentionsFailedJobs(row_text) ==
    \/ Contains(row_text, <<"f","a","i","l","e","d">>) /\ Contains(row_text, <<"j","o","b">>)
    \/ Contains(row_text, <<"n","u","m","b","e","r"," ","o","f"," ","f","a","i","l","e","d"," ","j","o","b","s">>)

\* lines 220-240: one row of the loop, on the values gathered so far
ReportedAfterRow(row, acc) ==
    With(RowText(row), LAMBDA row_text :
        With(FirstNumber(row), LAMBDA num :
            [failed_data_backup |->
                IF Contains(row_text, <<"f","a","i","l","e","d"," ","d","a","t","a"," ","b","a","c","k","u","p">>) /\ num.some
                THEN num ELSE acc.failed_data_backup,
             failed_log_backup |->
                IF Contains(row_text, <<"f","a","i","l","e","d"," ","l","o","g"," ","b","a","c","k","u","p">>) /\ num.some
                THEN num ELSE acc.failed_log_backup,
             failed_jobs_total |->
                IF MentionsFailedJobs(row_text) /\ num.some
                THEN acc.failed_jobs_total + num.v ELSE acc.failed_jobs_total]))

RECURSIVE ReportedUpTo(_, _)
ReportedUpTo(all_rows, i) ==
    IF i = 0
    THEN [failed_data_backup |-> NoValue, failed_log_backup |-> NoValue,
          failed_jobs_total |-> 0]
    ELSE With(ReportedUpTo(all_rows, i - 1), LAMBDA acc :
            ReportedAfterRow(all_rows[i], acc))

\* lines 242-243: the total is stored only when it is positive
StoreFailedJobs(failed_jobs_total) ==
    IF failed_jobs_total > 0 THEN Some(failed_jobs_total) ELSE NoValue

\* extract_reported_values (lines 214-245): iter_rows(min_row=1) goes
\* through the header rows too
extract_reported_values(sheet) ==
    With(sheet.head \o sheet.rows, LAMBDA all_rows :
        With(ReportedUpTo(all_rows, Len(all_rows)), LAMBDA acc :
            [failed_data_backup |-> acc.failed_data_backup,
             failed_log_backup |-> acc.failed_log_backup,
             failed_jobs |-> StoreFailedJobs(acc.failed_jobs_total)]))

\* a value of type Any: an int, or a list of strings
AnyInt(n) == [kind |-> "int", n |-> n, list |-> <<>>]
AnyList(list) == [kind |-> "list", n |-> 0, list |-> list]

ValidationIssue(sheet, image_name, severity, message, screenshot_value, reported_value) ==
    [sheet |-> sheet, image_name |-> image_name, severity |-> severity,
     message |-> message, screenshot_value |-> screenshot_value,
     reported_value |-> reported_value]

\* the three counts and what their messages call them
COUNT_METRICS ==
    <<[key |-> "failed_data_backup", noun |-> <<"f","a","i","l","e","d"," ","d","a","t","a"," ","b","a","c","k","u","p","s">>],
      [key |-> "failed_log_backup", noun |-> <<"f","a","i","l","e","d"," ","l","o","g"," ","b","a","c","k","u","p","s">>],
      [key |-> "failed_jobs", noun |-> <<"f","a","i","l","e","d"," ","j","o","b","s">>]>>

\* f'Screenshot shows {screenshot_val} {noun} but cell reports {reported_val}'
DiscrepancyMessage(screenshot_val, noun, reported_val) ==
    <<"S","c","r","e","e","n","s","h","o","t"," ","s","h","o","w","s"," ">> \o IntToStr(screenshot_val) \o <<" ">> \o noun
        \o <<" ","b","u","t"," ","c","e","l","l"," ","r","e","p","o","r","t","s"," ">> \o IntToStr(reported_val)

\* lines 259-302: one of the three comparisons
Discrepancy(analysis, screenshot, reported, noun) ==
    IF screenshot.some /\ reported.some /\ screenshot.v # reported.v
    THEN <<ValidationIssue(analysis.sheet_name, analysis.image_name, "critical",
                DiscrepancyMessage(screenshot.v, noun, reported.v),
                AnyInt(screenshot.v), reported.v)>>
    ELSE <<>>

\* reported.get(key, 0)
GetOrZero(value) == IF value.some THEN value.v ELSE 0

\* a variant: the failed jobs are left out of the sum
reported_failures_backups_only(reported) ==
    GetOrZero(reported.failed_data_backup) + GetOrZero(reported.failed_log_backup)

\* lines 306-310
reported_failures(reported) ==
    GetOrZero(reported.failed_data_backup) + GetOrZero(reported.failed_log_backup)
        + GetOrZero(reported.failed_jobs)

\* str(list) of a list of strings
ReprList(list) ==
    <<"[">> \o Join([i \in 1..Len(list) |-> ReprStr(list[i])], <<","," ">>) \o <<"]">>

MSG_ERROR_INDICATORS == <<"S","c","r","e","e","n","s","h","o","t"," ","s","h","o","w","s"," ","e","r","r","o","r"," ","i","n","d","i","c","a","t","o","r","s"," ","b","u","t"," ","n","o"," ","f","a","i","l","u","r","e","s"," ","r","e","p","o","r","t","e","d",":"," ">>

\* lines 311-319
ErrorIndicatorWarning(analysis, reported) ==
    IF analysis.extracted_data.has_errors /\ reported_failures(reported) = 0
    THEN <<ValidationIssue(analysis.sheet_name, analysis.image_name, "warning",
                MSG_ERROR_INDICATORS \o ReprList(analysis.extracted_data.error_indicators),
                AnyList(analysis.extracted_data.error_indicators), 0)>>
    ELSE <<>>

\* a variant: every analysis is held against the first sheet
SheetNamed_first(wb, sheet_name) == wb[1]

\* self.workbook[sheet_name]
SheetNamed(wb, sheet_name) == wb[CHOOSE i \in 1..Len(wb) : wb[i].name = sheet_name]

\* one iteration of the loop of validate_against_reports (lines 252-319)
ValidateOne(wb, analysis) ==
    IF analysis.analysis_type = "unknown" THEN <<>>
    ELSE With(extract_reported_values(SheetNamed(wb, analysis.sheet_name)), LAMBDA reported :
            Discrepancy(analysis, analysis.extracted_data.failed_data_backup,
                        reported.failed_data_backup, COUNT_METRICS[1].noun)
            \o Discrepancy(analysis, analysis.extracted_data.failed_log_backup,
                           reported.failed_log_backup, COUNT_METRICS[2].noun)
            \o Discrepancy(analysis, analysis.extracted_data.failed_jobs,
                           reported.failed_jobs, COUNT_METRICS[3].noun)
            \o ErrorIndicatorWarning(analysis, reported))

-----------------------------------------------------------------------------
(* ScreenshotValidator: run_validation                                     *)

\* ScreenshotValidator.__init__ (lines 103-124)
ValidatorInit ==
    /\ use_azure = AzureConfigured(azure_env)
    /\ vpc = "start"
    /\ extracted_images = <<>>
    /\ img_idx = 1
    /\ analyses = <<>>
    /\ self_analyses = <<>>
    /\ an_idx = 1
    /\ val_issues = <<>>
    /\ validation_issues = <<>>
    /\ vision_calls = <<>>
    /\ returned = [analyses |-> <<>>, issues |-> <<>>]

\* an environment without the Azure variables
NoAzure == [has_azure |-> TRUE, key |-> FALSE, endpoint |-> FALSE]

\* the validator is constructed and never run
ValidatorIdle ==
    /\ azure_env = NoAzure
    /\ responses = <<>>
    /\ ValidatorInit

\* return [], []
NothingValidated == [analyses |-> <<>>, issues |-> <<>>]

\* run_validation, lines 329-333: no embedded image is found
ExitNoImages ==
    /\ vpc = "start"
    /\ excel_path.opens
    /\ extract_images_from_excel(workbook) = <<>>
    /\ extracted_images' = <<>>
    /\ returned' = NothingValidated
    /\ vpc' = "done"
    /\ UNCHANGED <<workbook, auditVars, opVars, azure_env, use_azure, responses, img_idx,
                   analyses, self_analyses, an_idx, val_issues, validation_issues,
                   vision_calls>>

\* run_validation, lines 329-340: images are found, no vision backend is
\* configured
ExitNoBackend ==
    /\ vpc = "start"
    /\ excel_path.opens
    /\ extract_images_from_excel(workbook) # <<>>
    /\ ~use_azure
    /\ extracted_images' = extract_images_from_excel(workbook)
    /\ returned' = NothingValidated
    /\ vpc' = "done"
    /\ UNCHANGED <<workbook, auditVars, opVars, azure_env, use_azure, responses, img_idx,
                   analyses, self_analyses, an_idx, val_issues, validation_issues,
                   vision_calls>>

\* run_validation, lines 329-343, into analyze_all_images (line 192)
BeginAnalyze ==
    /\ vpc = "start"
    /\ excel_path.opens
    /\ extract_images_from_excel(workbook) # <<>>
    /\ use_azure
    /\ extracted_images' = extract_images_from_excel(workbook)
    /\ analyses' = <<>>
    /\ img_idx' = 1
    /\ vpc' = "analyzing"
    /\ UNCHANGED <<workbook, auditVars, opVars, azure_env, use_azure, responses,
                   self_analyses, an_idx, val_issues, validation_issues,
                   vision_calls, returned>>

\* one iteration of the loop of analyze_all_images (lines 194-209)
AnalyzeImage ==
    /\ vpc = "analyzing"
    /\ img_idx <= Len(extracted_images)
    /\ use_azure => responses[img_idx] # NeverReturns
    /\ \E image \in {extracted_images[img_idx]} :
        \E result \in {IF use_azure
                       THEN analyze_image_with_azure(use_azure, responses[img_idx])
                       ELSE None} :
            /\ vision_calls' = IF use_azure THEN Append(vision_calls, image.image_id)
                               ELSE vision_calls
            /\ analyses' = AppendAnalysis(analyses, image, result)
    /\ img_idx' = img_idx + 1
    /\ UNCHANGED <<workbook, auditVars, opVars, azure_env, use_azure, responses, vpc,
                   extracted_images, self_analyses, an_idx, val_issues,
                   validation_issues, returned>>

\* analyze_all_images returns (lines 211-212); run_validation enters
\* validate_against_reports (line 250)
EndAnalyze ==
    /\ vpc = "analyzing"
    /\ img_idx > Len(extracted_images)
    /\ self_analyses' = analyses
    /\ val_issues' = <<>>
    /\ an_idx' = 1
    /\ vpc' = "validating"
    /\ UNCHANGED <<workbook, auditVars, opVars, azure_env, use_azure, responses,
                   extracted_images, img_idx, analyses, validation_issues,
                   vision_calls, returned>>

\* one iteration of the loop of validate_against_reports (lines 252-319)
ValidateAnalysis ==
    /\ vpc = "validating"
    /\ an_idx <= Len(self_analyses)
    /\ val_issues' = val_issues \o ValidateOne(workbook, self_analyses[an_idx])
    /\ an_idx' = an_idx + 1
    /\ UNCHANGED <<workbook, auditVars, opVars, azure_env, use_azure, responses, vpc,
                   extracted_images, img_idx, analyses, self_analyses,
                   validation_issues, vision_calls, returned>>

\* validate_against_reports returns (lines 321-324) and run_validation
\* with it (line 348)
EndValidate ==
    /\ vpc = "validating"
    /\ an_idx > Len(self_analyses)
    /\ validation_issues' = val_issues
    /\ returned' = [analyses |-> self_analyses, issues |-> val_issues]
    /\ vpc' = "done"
    /\ UNCHANGED <<workbook, auditVars, opVars, azure_env, use_azure, responses,
                   extracted_images, img_idx, analyses, self_analyses, an_idx,
                   val_issues, vision_calls>>

NextShot ==
    \/ ExitNoImages \/ ExitNoBackend \/ BeginAnalyze
    \/ AnalyzeImage \/ EndAnalyze \/ ValidateAnalysis \/ EndValidate

\* the loop of analyze_all_images issues a call that never returns
\* (line 157): analyze_image_with_azure stays in it, and the loop with it
AwaitVisionCall ==
    /\ vpc = "analyzing"
    /\ img_idx <= Len(extracted_images)
    /\ use_azure
    /\ responses[img_idx] = NeverReturns
    /\ vision_calls' = Append(vision_calls, extracted_images[img_idx].image_id)
    /\ vpc' = "blocked"
    /\ UNCHANGED <<workbook, auditVars, opVars, azure_env, use_azure, responses,
                   extracted_images, img_idx, analyses, self_analyses, an_idx,
                   val_issues, validation_issues, returned>>

NextAwait == NextShot \/ AwaitVisionCall

-----------------------------------------------------------------------------
(* The entry points: what they are given and what they give back           *)

\* a document locator: whether a file exists there, whether openpyxl can
\* open it, and whether the customer's configuration file can be parsed
Locator(exists, opens, config_ok) ==
    [exists |-> exists, opens |-> opens, config_ok |-> config_ok]

\* a locator of a workbook that opens
Openable == Locator(TRUE, TRUE, TRUE)

\* the screenshot_stats of a new auditor (line 163)
NoStats == [analyzed |-> 0, issues |-> 0]

\* no entry point has returned anything
NoResult == [kind |-> "none", lines |-> <<>>]

\* no entry point is involved: the auditor and the validator are driven
\* on an open workbook
NoOperation ==
    /\ excel_path = Openable
    /\ imported = TRUE
    /\ op = "none"
    /\ outcome = NoResult
    /\ screenshot_stats = NoStats
    /\ calls = 0
    /\ last_issues = <<>>
    /\ frames = <<>>

\* the entry point is still running
Pending == [kind |-> "pending", lines |-> <<>>]

\* the entry point returned the report
Report(lines) == [kind |-> "report", lines |-> lines]

\* the entry point returned the line "Error...": which one
ErrorText(which) ==
    [kind |-> "error", lines |-> <<ReportLine("error", "", which, <<>>, <<>>)>>]

\* the entry point returned the summary of the screenshot validation
Summary(lines) == [kind |-> "summary", lines |-> lines]

\* an exception left the entry point
Raised == [kind |-> "raised", lines |-> <<>>]

\* sys.exit(1)
Exit == [kind |-> "exit", lines |-> <<>>]

\* the times datetime.now() may give
Clock == {1, 2}

\* calls of an entry point in one behaviour
MaxCalls == 2

\* a variant: the handler lets the exception through
ExceptException_uncaught(which) == Raised

\* except Exception as e: return f"Error executing ...: {str(e)}"
\* (server.py, lines 94-95 and 134-135)
ExceptException(which) == ErrorText(which)

\* a variant: a new auditor starts from the findings of the previous one
IssuesAtConstruction_kept(old) == old

\* self.issues = [] (line 159)
IssuesAtConstruction(old) == <<>>

\* DailyChecksAuditor(excel_path, ...) and load_workbook(): a new auditor,
\* which then stands at next_pc
NewAuditor(next_pc) ==
    /\ pc' = next_pc
    /\ sheet_idx' = 1
    /\ row_idx' = 1
    /\ current_check_type' = NoCheckType
    /\ issues' = <<>>
    /\ self_issues' = IssuesAtConstruction(self_issues)
    /\ metadata' = <<>>
    /\ screenshot_stats' = NoStats

\* ScreenshotValidator(excel_path): a new validator, about to run
NewValidator ==
    /\ use_azure' = AzureConfigured(azure_env)
    /\ vpc' = "start"
    /\ extracted_images' = <<>>
    /\ img_idx' = 1
    /\ analyses' = <<>>
    /\ self_analyses' = <<>>
    /\ an_idx' = 1
    /\ val_issues' = <<>>
    /\ validation_issues' = <<>>
    /\ vision_calls' = <<>>
    /\ returned' = NothingValidated

\* an entry point may be called: none is running, and the calls are not
\* used up; a second call repeats the first
MayCall(entry) ==
    /\ outcome.kind # "pending"
    /\ calls < MaxCalls
    /\ calls = 0 \/ op = entry

-----------------------------------------------------------------------------
(* server.py: audit_daily_checks                                           *)

\* a client calls the tool audit_daily_checks (line 61)
CallAuditDailyChecks ==
    /\ MayCall("audit_daily_checks")
    /\ op' = "audit_daily_checks"
    /\ outcome' = Pending
    /\ calls' = calls + 1
    /\ last_issues' = self_issues
    /\ pc' = "call"
    /\ UNCHANGED <<workbook, config, sheet_idx, row_idx, current_check_type, issues,
                   self_issues, metadata, shotVars, excel_path, imported, screenshot_stats, frames>>

\* lines 71-72: the import of the skill modules had failed
AuditModulesNotLoaded ==
    /\ op = "audit_daily_checks" /\ pc = "call"
    /\ ~imported
    /\ outcome' = ErrorText("Audit modules could not be loaded.")
    /\ pc' = "returned"
    /\ UNCHANGED <<workbook, config, sheet_idx, row_idx, current_check_type, issues,
                   self_issues, metadata, shotVars, excel_path, imported, op,
                   screenshot_stats, calls, last_issues, frames>>

\* lines 74-75
AuditFileNotFound ==
    /\ op = "audit_daily_checks" /\ pc = "call"
    /\ imported /\ ~excel_path.exists
    /\ outcome' = ErrorText("File found at")
    /\ pc' = "returned"
    /\ UNCHANGED <<workbook, config, sheet_idx, row_idx, current_check_type, issues,
                   self_issues, metadata, shotVars, excel_path, imported, op,
                   screenshot_stats, calls, last_issues, frames>>

\* lines 79-84: the customer's configuration cannot be parsed, json.load
\* raises
AuditConfigRaises ==
    /\ op = "audit_daily_checks" /\ pc = "call"
    /\ imported /\ excel_path.exists /\ ~excel_path.config_ok
    /\ pc' = "raised"
    /\ UNCHANGED <<workbook, config, sheet_idx, row_idx, current_check_type, issues,
                   self_issues, metadata, shotVars, opVars>>

\* lines 86-89: the auditor is built; load_workbook fails
AuditLoadFails ==
    /\ op = "audit_daily_checks" /\ pc = "call"
    /\ imported /\ excel_path.exists /\ excel_path.config_ok /\ ~excel_path.opens
    /\ NewAuditor("returned")
    /\ outcome' = ErrorText("Failed to load Excel workbook.")
    /\ UNCHANGED <<workbook, config, shotVars, excel_path, imported, op, calls,
                   last_issues, frames>>

\* lines 86-91: the auditor is built and the workbook loaded;
\* audit_all_sheets is next
AuditLoad ==
    /\ op = "audit_daily_checks" /\ pc = "call"
    /\ imported /\ excel_path.exists /\ excel_path.config_ok /\ excel_path.opens
    /\ NewAuditor("ready")
    /\ UNCHANGED <<workbook, config, shotVars, excel_path, imported, op, outcome, calls,
                   last_issues, frames>>

\* line 92: return auditor.generate_report()
AuditReport ==
    /\ op = "audit_daily_checks" /\ pc = "done"
    /\ \E now \in Clock :
        outcome' = Report(generate_report(SheetNames(workbook), self_issues, metadata,
                                          screenshot_stats, now))
    /\ pc' = "returned"
    /\ UNCHANGED <<workbook, config, sheet_idx, row_idx, current_check_type, issues,
                   self_issues, metadata, shotVars, excel_path, imported, op,
                   screenshot_stats, calls, last_issues, frames>>

\* lines 94-95: an exception inside the try block
AuditExcept ==
    /\ op = "audit_daily_checks" /\ pc = "raised"
    /\ outcome' = ExceptException("executing audit")
    /\ pc' = "returned"
    /\ UNCHANGED <<workbook, config, sheet_idx, row_idx, current_check_type, issues,
                   self_issues, metadata, shotVars, excel_path, imported, op,
                   screenshot_stats, calls, last_issues, frames>>

-----------------------------------------------------------------------------
(* server.py: validate_screenshots                                         *)

\* str(value) of a screenshot value
ValueStr(value) == IF value.kind = "int" THEN IntToStr(value.n) ELSE ReprList(value.list)

\* lines 126-130: the lines of the issues from the i-th on
RECURSIVE IssueSummaryFrom(_, _)
IssueSummaryFrom(list, i) ==
    IF i > Len(list) THEN <<>>
    ELSE <<ReportLine("validation_issue", list[i].sheet, list[i].severity, <<>>,
                      <<list[i].message>>),
           ReportLine("screenshot_shows", list[i].sheet, "", <<>>,
                      <<ValueStr(list[i].screenshot_value)>>),
           ReportLine("reported_value", list[i].sheet, "", <<list[i].reported_value>>, <<>>)>>
         \o IssueSummaryFrom(list, i + 1)

\* lines 118-130
SummaryLinesOf(analyzed, list) ==
    <<ReportLine("title", "", "", <<>>, <<>>),
      ReportLine("analyzed", "", "", <<Len(analyzed)>>, <<>>)>>
    \o (IF list = <<>> THEN <<ReportLine("no_issues", "", "", <<>>, <<>>)>>
        ELSE <<ReportLine("found", "", "", <<Len(list)>>, <<>>)>>
             \o IssueSummaryFrom(list, 1))

\* a client calls the tool validate_screenshots (line 98)
CallValidateScreenshots ==
    /\ MayCall("validate_screenshots")
    /\ op' = "validate_screenshots"
    /\ outcome' = Pending
    /\ calls' = calls + 1
    /\ last_issues' = self_issues
    /\ vpc' = "call"
    /\ UNCHANGED <<workbook, auditVars, azure_env, use_azure, responses, extracted_images,
                   img_idx, analyses, self_analyses, an_idx, val_issues, validation_issues,
                   vision_calls, returned, excel_path, imported, screenshot_stats, frames>>

\* lines 108-109
ValidateModulesNotLoaded ==
    /\ op = "validate_screenshots" /\ vpc = "call"
    /\ ~imported
    /\ outcome' = ErrorText("Screenshot validator module could not be loaded.")
    /\ vpc' = "returned"
    /\ UNCHANGED <<workbook, auditVars, azure_env, use_azure, responses, extracted_images,
                   img_idx, analyses, self_analyses, an_idx, val_issues, validation_issues,
                   vision_calls, returned, excel_path, imported, op, screenshot_stats,
                   calls, last_issues, frames>>

\* lines 111-112
ValidateFileNotFound ==
    /\ op = "validate_screenshots" /\ vpc = "call"
    /\ imported /\ ~excel_path.exists
    /\ outcome' = ErrorText("File not found at")
    /\ vpc' = "returned"
    /\ UNCHANGED <<workbook, auditVars, azure_env, use_azure, responses, extracted_images,
                   img_idx, analyses, self_analyses, an_idx, val_issues, validation_issues,
                   vision_calls, returned, excel_path, imported, op, screenshot_stats,
                   calls, last_issues, frames>>

\* lines 115-116: the validator is built; run_validation is next
ValidateBegin ==
    /\ op = "validate_screenshots" /\ vpc = "call"
    /\ imported /\ excel_path.exists
    /\ NewValidator
    /\ UNCHANGED <<workbook, auditVars, azure_env, responses, opVars>>

\* extract_images_from_excel (screenshot_validator.py, line 128):
\* openpyxl.load_workbook raises on a file it cannot open
ExtractRaises ==
    /\ vpc = "start"
    /\ ~excel_path.opens
    /\ vpc' = "raised"
    /\ UNCHANGED <<workbook, auditVars, azure_env, use_azure, responses, extracted_images,
                   img_idx, analyses, self_analyses, an_idx, val_issues, validation_issues,
                   vision_calls, returned, opVars>>

\* lines 118-132: the summary is returned
ValidateSummary ==
    /\ op = "validate_screenshots" /\ vpc = "done"
    /\ outcome' = Summary(SummaryLinesOf(returned.analyses, returned.issues))
    /\ vpc' = "returned"
    /\ UNCHANGED <<workbook, auditVars, azure_env, use_azure, responses, extracted_images,
                   img_idx, analyses, self_analyses, an_idx, val_issues, validation_issues,
                   vision_calls, returned, excel_path, imported, op, screenshot_stats,
                   calls, last_issues, frames>>

\* lines 134-135: an exception inside the try block
ValidateExcept ==
    /\ op = "validate_screenshots" /\ vpc = "raised"
    /\ outcome' = ExceptException("executing screenshot validation")
    /\ vpc' = "returned"
    /\ UNCHANGED <<workbook, auditVars, azure_env, use_azure, responses, extracted_images,
                   img_idx, analyses, self_analyses, an_idx, val_issues, validation_issues,
                   vision_calls, returned, excel_path, imported, op, screenshot_stats,
                   calls, last_issues, frames>>

-----------------------------------------------------------------------------
(* audit_checks.py: main, the command-line run                             *)

\* the text of an image name, f"{sheet_name}_image_{idx}"; the sheet's
\* name stands in it as one character
ImageName(image_id) == <<image_id.sheet>> \o <<"_","i","m","a","g","e","_">> \o IntToStr(image_id.idx)

\* lines 526-533: the finding a screenshot issue becomes
ScreenshotFinding(issue) ==
    AuditIssue(issue.sheet, 0, "screenshot_validation", issue.severity,
               <<"[","S","C","R","E","E","N","S","H","O","T","]"," ">> \o issue.message,
               <<"I","m","a","g","e",":"," ">> \o ImageName(issue.image_name))

\* the script is run on a document (line 479)
CallMain ==
    /\ MayCall("main")
    /\ op' = "main"
    /\ outcome' = Pending
    /\ calls' = calls + 1
    /\ last_issues' = self_issues
    /\ pc' = "call"
    /\ UNCHANGED <<workbook, config, sheet_idx, row_idx, current_check_type, issues,
                   self_issues, metadata, shotVars, excel_path, imported, screenshot_stats, frames>>

\* lines 488-490
MainFileNotFound ==
    /\ op = "main" /\ pc = "call"
    /\ ~excel_path.exists
    /\ outcome' = Exit
    /\ pc' = "returned"
    /\ UNCHANGED <<workbook, config, sheet_idx, row_idx, current_check_type, issues,
                   self_issues, metadata, shotVars, excel_path, imported, op,
                   screenshot_stats, calls, last_issues, frames>>

\* lines 496-500: json.load raises, and nothing catches it
MainConfigRaises ==
    /\ op = "main" /\ pc = "call"
    /\ excel_path.exists /\ ~excel_path.config_ok
    /\ outcome' = Raised
    /\ pc' = "returned"
    /\ UNCHANGED <<workbook, config, sheet_idx, row_idx, current_check_type, issues,
                   self_issues, metadata, shotVars, excel_path, imported, op,
                   screenshot_stats, calls, last_issues, frames>>

\* lines 508-511: the auditor is built; load_workbook fails
MainLoadFails ==
    /\ op = "main" /\ pc = "call"
    /\ excel_path.exists /\ excel_path.config_ok /\ ~excel_path.opens
    /\ NewAuditor("returned")
    /\ outcome' = Exit
    /\ UNCHANGED <<workbook, config, shotVars, excel_path, imported, op, calls,
                   last_issues, frames>>

\* lines 508-515: the auditor is built and the workbook loaded;
\* audit_all_sheets is next
MainLoad ==
    /\ op = "main" /\ pc = "call"
    /\ excel_path.exists /\ excel_path.config_ok /\ excel_path.opens
    /\ NewAuditor("ready")
    /\ UNCHANGED <<workbook, config, shotVars, excel_path, imported, op, outcome, calls,
                   last_issues, frames>>

\* line 515: nothing catches an exception of audit_all_sheets
MainAuditRaises ==
    /\ op = "main" /\ pc = "raised"
    /\ outcome' = Raised
    /\ pc' = "returned"
    /\ UNCHANGED <<workbook, config, sheet_idx, row_idx, current_check_type, issues,
                   self_issues, metadata, shotVars, excel_path, imported, op,
                   screenshot_stats, calls, last_issues, frames>>

\* lines 519-522: the validator is imported and built; run_validation is
\* next
MainValidate ==
    /\ op = "main" /\ pc = "done"
    /\ imported
    /\ NewValidator
    /\ pc' = "validating"
    /\ UNCHANGED <<workbook, config, sheet_idx, row_idx, current_check_type, issues,
                   self_issues, metadata, azure_env, responses, opVars>>

\* lines 520, 537: the validator cannot be imported, the screenshots
\* are left out
MainImportError ==
    /\ op = "main" /\ pc = "done"
    /\ ~imported
    /\ pc' = "merged"
    /\ UNCHANGED <<workbook, config, sheet_idx, row_idx, current_check_type, issues,
                   self_issues, metadata, shotVars, opVars>>

\* lines 525-536: the screenshot issues join the findings
MainMerge ==
    /\ op = "main" /\ pc = "validating" /\ vpc = "done"
    /\ self_issues' = self_issues
            \o [k \in 1..Len(returned.issues) |-> ScreenshotFinding(returned.issues[k])]
    /\ screenshot_stats' = [analyzed |-> Len(returned.analyses),
                            issues |-> Len(returned.issues)]
    /\ pc' = "merged"
    /\ UNCHANGED <<workbook, config, sheet_idx, row_idx, current_check_type, issues,
                   metadata, shotVars, excel_path, imported, op, outcome, calls,
                   last_issues, frames>>

\* lines 558-563: the report is saved and printed
MainReport ==
    /\ op = "main" /\ pc = "merged"
    /\ \E now \in Clock :
        outcome' = Report(generate_report(SheetNames(workbook), self_issues, metadata,
                                          screenshot_stats, now))
    /\ pc' = "returned"
    /\ UNCHANGED <<workbook, config, sheet_idx, row_idx, current_check_type, issues,
                   self_issues, metadata, shotVars, excel_path, imported, op,
                   screenshot_stats, calls, last_issues, frames>>

NextEntry ==
    \/ CallAuditDailyChecks \/ AuditModulesNotLoaded \/ AuditFileNotFound
    \/ AuditConfigRaises \/ AuditLoadFails \/ AuditLoad \/ AuditReport \/ AuditExcept
    \/ CallValidateScreenshots \/ ValidateModulesNotLoaded \/ ValidateFileNotFound
    \/ ValidateBegin \/ ExtractRaises \/ ValidateSummary \/ ValidateExcept
    \/ CallMain \/ MainFileNotFound \/ MainConfigRaises \/ MainLoadFails \/ MainLoad
    \/ MainAuditRaises \/ MainValidate \/ MainImportError \/ MainMerge \/ MainReport
    \/ NextAudit \/ NextShot


-----------------------------------------------------------------------------
(* Documents with negative responses and justifications                    *)

\* rows per sheet
MaxRows == 1

JustLabels == {StrCell(<<"n","o","t","e">>), StrCell(<<"R","e","s","p"," ","T","i","m","e">>), StrCell(<<"f","a","i","l","e","d"," ","u","p","d","a","t","e">>)}
JustCol3 == {NoneCell, StrCell(<<"N">>), StrCell(<<" ","n">>)}
JustCol4 == {NoneCell, StrCell(<<"N">>), IntCell(2000)}
JustStatus ==
    {NoneCell, StrCell(<<" ", NBSP>>), StrCell(<<"o","k">>), StrCell(<<"t","i","c","k","e","t"," ","1","2">>),
     StrCell(<<" "," ","t","i","c","k","e","t"," ","1">>), StrCell(<<"I","N","C","0","0","1","2","3","4","5">>)}

JustRows ==
    {MkRow(l, c3, c4, NoneCell, st) :
        l \in JustLabels, c3 \in JustCol3, c4 \in JustCol4, st \in JustStatus}

Init ==
    /\ workbook \in {<<Sheet("S1", rows)>> : rows \in SeqsUpTo(JustRows, MaxRows)}
    /\ config = NoneConfig
    /\ AuditorInit
    /\ NoOperation
    /\ ValidatorIdle

Spec == Init /\ [][NextAudit]_vars


-----------------------------------------------------------------------------
(* The justification rule: claims C1, C2, C3 (checked under Spec)          *)

\* the rows of the current sheet that audit_sheet has gone through
AuditedRows == IF pc = "rows" THEN 1..(row_idx - 1) ELSE {}

\* the findings the loop has appended for the row at index i
FindingsOf(i) == SelectSeq(issues, LAMBDA f : f.row = RowNo(i))

Count(seq, Test(_)) == Len(SelectSeq(seq, Test))

StartsWith(s, prefix) == Len(s) >= Len(prefix) /\ SubSeq(s, 1, Len(prefix)) = prefix

\* the cell holds the text "N", in any case, after trimming
HoldsN(cell) == cell.t = "str" /\ Upper(Strip(cell.s)) = <<"N">>

\* response column 3 or 4 equals "N"
NegativeRow(row) == HoldsN(row[4]) \/ HoldsN(row[5])

\* the status column is absent, blank or whitespace-only
BlankStatus(row) == row[7].t = "none" \/ (row[7].t = "str" /\ Strip(row[7].s) = <<>>)

\* the status text, trimmed; the empty text when the column holds no text
StatusText(row) == IF row[7].t = "str" THEN Strip(row[7].s) ELSE <<>>

IsNoJustificationFinding(f) == f.severity = "critical" /\ f.message = MSG_NO_JUSTIFICATION

IsBriefFinding(f) == f.severity = "warning" /\ StartsWith(f.message, MSG_BRIEF_PREFIX)

\* C1, as stated: a negative row with a blank status has exactly one
\* critical finding.
C1_AsStated ==
    \A i \in AuditedRows :
        NegativeRow(CurSheet.rows[i]) /\ BlankStatus(CurSheet.rows[i])
            => Count(FindingsOf(i), LAMBDA f : f.severity = "critical") = 1

\* C1, amended: a negative row with a blank status has exactly one critical
\* "without justification" finding and no "brief justification" warning; its
\* other critical findings are those of the failed-update and tRFC rules.
C1_OneMissingJustification ==
    \A i \in AuditedRows :
        NegativeRow(CurSheet.rows[i]) /\ BlankStatus(CurSheet.rows[i])
            => /\ Count(FindingsOf(i), IsNoJustificationFinding) = 1
               /\ Count(FindingsOf(i), IsBriefFinding) = 0
               /\ \A k \in 1..Len(FindingsOf(i)) :
                     FindingsOf(i)[k].severity = "critical"
                         => \/ IsNoJustificationFinding(FindingsOf(i)[k])
                            \/ StartsWith(FindingsOf(i)[k].message, <<"F","a","i","l","e","d"," ","u","p","d","a","t","e","s"," ","d","e","t","e","c","t","e","d",":"," ">>)
                            \/ StartsWith(FindingsOf(i)[k].message, <<"t","R","F","C"," ","e","r","r","o","r","s"," ","d","e","t","e","c","t","e","d",":"," ">>)

\* a negative row with a whitespace-only status has been audited, and the
\* failed-update rule has added a second critical finding to it
C1_Witness ==
    \E i \in AuditedRows :
        /\ NegativeRow(CurSheet.rows[i])
        /\ CurSheet.rows[i][7].t = "str" /\ BlankStatus(CurSheet.rows[i])
        /\ Count(FindingsOf(i), IsNoJustificationFinding) = 1
        /\ Count(FindingsOf(i), LAMBDA f : f.severity = "critical") = 2

\* C2, as stated: a negative row whose status text has 1 to 8 characters has
\* exactly one warning finding, and that finding quotes the text.
C2_AsStated ==
    \A i \in AuditedRows :
        NegativeRow(CurSheet.rows[i]) /\ Len(StatusText(CurSheet.rows[i])) \in 1..8
            => /\ Count(FindingsOf(i), LAMBDA f : f.severity = "warning") = 1
               /\ \A k \in 1..Len(FindingsOf(i)) :
                     FindingsOf(i)[k].severity = "warning"
                         => FindingsOf(i)[k].message
                                = BriefMessage(StatusText(CurSheet.rows[i]))

\* C2, amended: such a row has exactly one "brief justification" warning, it
\* quotes the trimmed status text, and the row has no "without justification"
\* finding; its other warnings are those of the numeric rules.
C2_OneBriefWarning ==
    \A i \in AuditedRows :
        NegativeRow(CurSheet.rows[i]) /\ Len(StatusText(CurSheet.rows[i])) \in 1..8
            => /\ Count(FindingsOf(i), IsBriefFinding) = 1
               /\ Count(FindingsOf(i), IsNoJustificationFinding) = 0
               /\ \A k \in 1..Len(FindingsOf(i)) :
                     IsBriefFinding(FindingsOf(i)[k])
                         => FindingsOf(i)[k].message
                                = BriefMessage(StatusText(CurSheet.rows[i]))
               /\ \A k \in 1..Len(FindingsOf(i)) :
                     FindingsOf(i)[k].severity = "warning"
                         => \/ IsBriefFinding(FindingsOf(i)[k])
                            \/ StartsWith(FindingsOf(i)[k].message, <<"R","e","s","p","o","n","s","e"," ","t","i","m","e"," ">>)
                            \/ StartsWith(FindingsOf(i)[k].message, <<"H","i","g","h"," ","d","u","m","p"," ","c","o","u","n","t"," ">>)

\* a negative row whose padded status text is short once trimmed has been
\* audited and has its warning
C2_Witness ==
    \E i \in AuditedRows :
        /\ NegativeRow(CurSheet.rows[i])
        /\ Len(StatusText(CurSheet.rows[i])) \in 1..8
        /\ CurSheet.rows[i][7].s # StatusText(CurSheet.rows[i])
        /\ Count(FindingsOf(i), IsBriefFinding) = 1

-----------------------------------------------------------------------------
(* Documents audited under a Configuration                                 *)

ThrLabels == {StrCell(<<"D","u","m","p","s"," ","t","o","d","a","y">>), StrCell(<<"D","u","m","p","s"," ","y","e","s","t","e","r","d","a","y">>), StrCell(<<"R","e","s","p"," ","T","i","m","e">>)}
ThrValues == {IntCell(5), IntCell(11), IntCell(60), IntCell(1200)}

ThrRows == {MkRow(l, v, NoneCell, NoneCell, NoneCell) : l \in ThrLabels, v \in ThrValues}

\* Configurations: none, an empty dict, a dict without 'thresholds', and
\* dicts whose 'thresholds' names one metric
ThrConfigs ==
    {NoneConfig, DictConfig(FALSE, FALSE, {}), DictConfig(FALSE, TRUE, {}),
     DictConfig(TRUE, FALSE, {})}
    \cup {DictConfig(TRUE, FALSE, {ThresholdEntry(m, TRUE, 10)}) :
            m \in {"dump_count_today", "dumps_today", "dump_count_yesterday",
                   "dumps_yesterday", "response_time_smlg"}}
    \cup {DictConfig(TRUE, FALSE, {ThresholdEntry("dumps_today", FALSE, 0)})}

InitThresholds ==
    /\ workbook \in {<<Sheet("S1", rows)>> : rows \in SeqsUpTo(ThrRows, MaxRows)}
    /\ config \in ThrConfigs
    /\ AuditorInit
    /\ NoOperation
    /\ ValidatorIdle

SpecThresholds == InitThresholds /\ [][NextAudit]_vars

-----------------------------------------------------------------------------
(* Threshold overrides: claim C4 (checked under SpecThresholds)            *)

\* the Configuration holds thresholds.<metric>.max = max
HasMax(cfg, metric, max) ==
    /\ cfg.kind = "dict" /\ cfg.hasThresholds
    /\ \E e \in cfg.thresholds : e.metric = metric /\ e.hasMax /\ e.max = max

EndsWith(s, suffix) ==
    Len(s) >= Len(suffix) /\ SubSeq(s, Len(s) - Len(suffix) + 1, Len(s)) = suffix

\* the row's text contains "dump" and "today" and its numeric value is n
DumpsTodayRow(row, n) ==
    /\ Contains(Lower(RowText(row)), <<"d","u","m","p">>)
    /\ Contains(Lower(RowText(row)), <<"t","o","d","a","y">>)
    /\ extract_numeric_value(row) = Finite(n * 10)

\* C4, as stated: with thresholds.dump_count_today.max = 10, a row whose
\* text contains "dump" and "today" and whose value is 11 has a warning
\* finding that cites threshold 10.
C4_AsStated ==
    \A i \in AuditedRows :
        HasMax(config, "dump_count_today", 10) /\ DumpsTodayRow(CurSheet.rows[i], 11)
            => \E k \in 1..Len(FindingsOf(i)) :
                  /\ FindingsOf(i)[k].severity = "warning"
                  /\ EndsWith(FindingsOf(i)[k].message, <<"(","t","h","r","e","s","h","o","l","d",":"," ","1","0",")">>)

-----------------------------------------------------------------------------
(* Documents with labelled and unlabelled rows                             *)

\* rows per sheet
StickyRows == 3

StickyVocabulary ==
    {MkRow(StrCell(<<"S","M","3","7"," ","f","a","i","l","e","d"," ","j","o","b"," ","h","e","a","d","e","r">>), NoneCell, NoneCell, NoneCell, NoneCell),
     MkRow(StrCell(<<"S","T","2","2"," ","d","u","m","p","s">>), StrCell(<<"N">>), NoneCell, NoneCell, NoneCell),
     MkRow(StrCell(<<"n","o","t","e">>), StrCell(<<"N">>), NoneCell, NoneCell, NoneCell),
     MkRow(StrCell(<<"r","e","s","p"," ","t","i","m","e">>), IntCell(2000), StrCell(<<"N">>), NoneCell, NoneCell),
     MkRow(NoneCell, NoneCell, NoneCell, NoneCell, NoneCell)}

InitSticky ==
    /\ workbook \in {<<Sheet("S1", rows)>> : rows \in SeqsUpTo(StickyVocabulary, StickyRows)}
    /\ config = NoneConfig
    /\ AuditorInit
    /\ NoOperation
    /\ ValidatorIdle

SpecSticky == InitSticky /\ [][NextAudit]_vars

-----------------------------------------------------------------------------
(* Sticky classification: claim C5 (checked under SpecSticky)              *)

\* the row matches no category
Unlabeled(row) == identify_check_type(row) = NoCheckType

\* the category of the last labelled row among rows 1..i of the current
\* sheet, NoCheckType when none of them is labelled
RECURSIVE LastCategory(_)
LastCategory(i) ==
    IF i = 0 THEN NoCheckType
    ELSE IF ~Unlabeled(CurSheet.rows[i]) THEN identify_check_type(CurSheet.rows[i])
    ELSE LastCategory(i - 1)

\* a finding of the justification rule
IsJustificationFinding(f) == IsNoJustificationFinding(f) \/ IsBriefFinding(f)

\* C5, as stated: every finding of an unlabelled row that follows a row of
\* category C carries C.
C5_AsStated ==
    \A i \in AuditedRows :
        Unlabeled(CurSheet.rows[i]) /\ LastCategory(i) # NoCheckType
            => \A k \in 1..Len(FindingsOf(i)) :
                  FindingsOf(i)[k].check_type = LastCategory(i)

\* C5, amended: the loop's category after row i is that of the last
\* labelled row so far; the justification findings of every row carry it
\* ('unknown' before the first labelled row), and every other finding
\* carries the category of its numeric rule.
C5_StickyCategory ==
    pc = "rows" =>
        /\ current_check_type = LastCategory(row_idx - 1)
        /\ \A i \in AuditedRows : \A k \in 1..Len(FindingsOf(i)) :
              IF IsJustificationFinding(FindingsOf(i)[k])
              THEN FindingsOf(i)[k].check_type = OrUnknown(LastCategory(i))
              ELSE FindingsOf(i)[k].check_type \in {"smlg", "st22", "sm13", "sm58", "sm12"}

\* a labelled row and the two unlabelled rows after it have been audited:
\* both unlabelled rows have a justification finding in the first row's
\* category, and the last has a numeric finding in another category
C5_Witness ==
    /\ pc = "rows" /\ row_idx = 4
    /\ identify_check_type(CurSheet.rows[1]) = "sm37"
    /\ Unlabeled(CurSheet.rows[2]) /\ Unlabeled(CurSheet.rows[3])
    /\ \A i \in {2, 3} : \E k \in 1..Len(FindingsOf(i)) :
          IsJustificationFinding(FindingsOf(i)[k]) /\ FindingsOf(i)[k].check_type = "sm37"
    /\ \E k \in 1..Len(FindingsOf(3)) : FindingsOf(3)[k].check_type = "smlg"
    /\ current_check_type = "sm37"

-----------------------------------------------------------------------------
(* Documents with reported failure counts and one screenshot               *)

\* rows per sheet
ShotRows == 2

ShotVocabulary ==
    {MkRow(StrCell(<<"F","a","i","l","e","d"," ","d","a","t","a"," ","b","a","c","k","u","p">>), IntCell(0), NoneCell, NoneCell, NoneCell),
     MkRow(StrCell(<<"F","a","i","l","e","d"," ","d","a","t","a"," ","b","a","c","k","u","p">>), FloatCell(25), NoneCell, NoneCell, NoneCell),
     MkRow(StrCell(<<"F","a","i","l","e","d"," ","l","o","g"," ","b","a","c","k","u","p">>), NoneCell, IntCell(0), NoneCell, NoneCell),
     MkRow(StrCell(<<"N","u","m","b","e","r"," ","o","f"," ","F","a","i","l","e","d"," ","J","o","b","s",":"," ","T","o","d","a","y">>), IntCell(0), NoneCell, NoneCell, NoneCell),
     MkRow(StrCell(<<"N","u","m","b","e","r"," ","o","f"," ","F","a","i","l","e","d"," ","J","o","b","s",":"," ","Y","e","s","t","e","r","d","a","y">>), IntCell(3), NoneCell, NoneCell, NoneCell),
     MkRow(StrCell(<<"F","a","i","l","e","d"," ","j","o","b","s"," ","n","o",".">>), StrCell(<<"N">>), NoneCell, NoneCell, NoneCell)}

ShotImages == {<<>>, <<Image(TRUE, "png")>>}

ShotEnvs == {NoAzure, [has_azure |-> TRUE, key |-> TRUE, endpoint |-> TRUE]}

\* what the service answers for the screenshot
ShotResponses ==
    {Refusal}
    \cup {Parsed(ScreenshotAnalysisResponse(type, <<"g","r","i","d">>,
                ExtractedScreenshotData(fdb, flb, fj, has_errors,
                    IF has_errors THEN <<<<"r","e","d">>>> ELSE <<>>))) :
            type \in {"backup", "unknown"},
            fdb \in {NoValue, Some(0), Some(2)},
            flb \in {NoValue, Some(0)},
            fj \in {NoValue, Some(2)},
            has_errors \in BOOLEAN}

InitShot ==
    /\ workbook \in {<<SheetWithImages("S1", rows, images)>> :
                        rows \in SeqsUpTo(ShotVocabulary, ShotRows), images \in ShotImages}
    /\ config = NoneConfig
    /\ AuditorInit
    /\ NoOperation
    /\ azure_env \in ShotEnvs
    /\ responses \in [1..Len(extract_images_from_excel(workbook)) -> ShotResponses]
    /\ ValidatorInit

SpecShot == InitShot /\ [][NextShot]_vars

-----------------------------------------------------------------------------
(* Reconciliation: claims C6, C7, C8 (checked under SpecShot)              *)

\* the analyses validate_against_reports has gone through
Reconciled ==
    IF vpc \in {"validating", "done"} THEN 1..(an_idx - 1) ELSE {}

\* the analysis at index k was not skipped as 'unknown'
IsReconciled(k) == self_analyses[k].analysis_type # "unknown"

\* the issues the loop has appended for the analysis at index k
IssuesOf(k) ==
    SelectSeq(val_issues, LAMBDA f : f.image_name = self_analyses[k].image_name)

\* the sheet of the analysis at index k
SheetOf(k) == SheetNamed(workbook, self_analyses[k].sheet_name)

\* the rows of a sheet that name a metric and hold a number
MetricRows(sheet, Mentions(_)) ==
    {i \in 1..Len(sheet.head \o sheet.rows) :
        /\ Mentions(RowText((sheet.head \o sheet.rows)[i]))
        /\ FirstNumber((sheet.head \o sheet.rows)[i]).some}

RECURSIVE SumOfRows(_, _)
SumOfRows(sheet, at) ==
    IF at = {} THEN 0
    ELSE LET i == CHOOSE j \in at : TRUE
         IN  FirstNumber((sheet.head \o sheet.rows)[i]).v + SumOfRows(sheet, at \ {i})

\* the value the sheet reports for a count: that of its last row naming a
\* backup count, the sum over its rows naming failed jobs; None when no row
\* names the count with a number
SheetReports(sheet, key) ==
    IF key = "failed_jobs"
    THEN LET at == MetricRows(sheet, MentionsFailedJobs)
         IN  IF at = {} THEN NoValue ELSE Some(SumOfRows(sheet, at))
    ELSE LET at == IF key = "failed_data_backup"
                   THEN MetricRows(sheet, LAMBDA t : Contains(t, <<"f","a","i","l","e","d"," ","d","a","t","a"," ","b","a","c","k","u","p">>))
                   ELSE MetricRows(sheet, LAMBDA t : Contains(t, <<"f","a","i","l","e","d"," ","l","o","g"," ","b","a","c","k","u","p">>))
         IN  IF at = {} THEN NoValue
             ELSE FirstNumber((sheet.head \o sheet.rows)[CHOOSE i \in at : \A j \in at : j <= i])

\* the critical issue of a count, with the two values
IsDiscrepancyOf(f, noun, screenshot_val, reported_val) ==
    /\ f.severity = "critical"
    /\ f.message = DiscrepancyMessage(screenshot_val, noun, reported_val)
    /\ f.screenshot_value = AnyInt(screenshot_val)
    /\ f.reported_value = reported_val

\* C6, as stated: for each of the three counts, when a reconciled analysis
\* carries the count, the sheet reports a value for it (a zero included) and
\* the two differ, exactly one critical issue carries the two values.
C6_AsStated ==
    \A k \in Reconciled : \A m \in 1..Len(COUNT_METRICS) :
        LET count == self_analyses[k].extracted_data[COUNT_METRICS[m].key]
            reported == SheetReports(SheetOf(k), COUNT_METRICS[m].key)
        IN  IsReconciled(k) /\ count.some /\ reported.some /\ count.v # reported.v
                => Count(IssuesOf(k),
                         LAMBDA f : IsDiscrepancyOf(f, COUNT_METRICS[m].noun,
                                                    count.v, reported.v)) = 1

IsErrorIndicatorWarning(f) ==
    f.severity = "warning" /\ StartsWith(f.message, MSG_ERROR_INDICATORS)

\* the sum of the three reported failure metrics, a metric the sheet's
\* reported values lack counting as zero
SumOfReported(reported) ==
    (IF reported.failed_data_backup.some THEN reported.failed_data_backup.v ELSE 0)
    + (IF reported.failed_log_backup.some THEN reported.failed_log_backup.v ELSE 0)
    + (IF reported.failed_jobs.some THEN reported.failed_jobs.v ELSE 0)

\* C7: a reconciled analysis whose has_errors flag is true has exactly one
\* warning issue when the sum of the sheet's three reported failure metrics
\* is zero, and no warning issue when the sum is not zero; an analysis whose
\* flag is false has none.
C7_ErrorIndicatorWarning ==
    \A k \in Reconciled :
        IsReconciled(k) =>
            LET reported == extract_reported_values(SheetOf(k))
                warnings == Count(IssuesOf(k), LAMBDA f : f.severity = "warning")
            IN  /\ Count(IssuesOf(k), IsErrorIndicatorWarning) = warnings
                /\ warnings =
                     IF /\ self_analyses[k].extracted_data.has_errors
                        /\ SumOfReported(reported) = 0
                     THEN 1 ELSE 0

\* an analysis with has_errors has been reconciled against a sheet that
\* reports 3 failed jobs and zero failed backups, and has no warning
C7_Witness ==
    \E k \in Reconciled :
        /\ IsReconciled(k)
        /\ self_analyses[k].extracted_data.has_errors
        /\ extract_reported_values(SheetOf(k)).failed_jobs = Some(3)
        /\ extract_reported_values(SheetOf(k)).failed_data_backup = Some(0)
        /\ Count(IssuesOf(k), IsErrorIndicatorWarning) = 0

\* C8, as stated: a count the extraction lacks yields no discrepancy, and
\* the has_errors warning is raised only when each of the three reported
\* metrics is present with the value zero.
C8_AsStated ==
    \A k \in Reconciled :
        /\ \A m \in 1..Len(COUNT_METRICS) :
              ~self_analyses[k].extracted_data[COUNT_METRICS[m].key].some
                  => Count(IssuesOf(k),
                           LAMBDA f : /\ f.severity = "critical"
                                      /\ Contains(f.message, COUNT_METRICS[m].noun)) = 0
        /\ Count(IssuesOf(k), IsErrorIndicatorWarning) > 0
              => \A m \in 1..Len(COUNT_METRICS) :
                    extract_reported_values(SheetOf(k))[COUNT_METRICS[m].key] = Some(0)

-----------------------------------------------------------------------------
(* Documents with several screenshots                                      *)

\* images per sheet
MaxImages == 2

AnalyzeImages == {Image(TRUE, "png"), Image(FALSE, "broken")}

AnalyzeEnvs ==
    {[has_azure |-> TRUE, key |-> TRUE, endpoint |-> TRUE],
     [has_azure |-> TRUE, key |-> TRUE, endpoint |-> FALSE],
     [has_azure |-> TRUE, key |-> FALSE, endpoint |-> TRUE],
     [has_azure |-> FALSE, key |-> TRUE, endpoint |-> TRUE]}

AnalyzeResponses ==
    {ServiceError, Refusal, Unparsed,
     Parsed(ScreenshotAnalysisResponse("backup", <<"g","r","i","d">>,
                ExtractedScreenshotData(Some(0), NoValue, NoValue, FALSE, <<>>))),
     Parsed(ScreenshotAnalysisResponse("other", <<"p","h","o","t","o">>,
                ExtractedScreenshotData(NoValue, NoValue, NoValue, FALSE, <<>>)))}

InitAnalyze ==
    /\ workbook \in {<<SheetWithImages("S1", <<>>, images)>> :
                        images \in SeqsUpTo(AnalyzeImages, MaxImages)}
    /\ config = NoneConfig
    /\ AuditorInit
    /\ NoOperation
    /\ azure_env \in AnalyzeEnvs
    /\ responses \in [1..Len(extract_images_from_excel(workbook)) -> AnalyzeResponses]
    /\ ValidatorInit

SpecAnalyze == InitAnalyze /\ [][NextShot]_vars

-----------------------------------------------------------------------------
(* run_validation: claims C9, C10 (checked under SpecAnalyze)              *)

\* the images of the document whose bytes can be read
ReadableImages ==
    {<<s, i>> \in (1..Len(workbook)) \X (1..MaxImages + 1) :
        i <= Len(workbook[s].images) /\ workbook[s].images[i].readable}

\* the environment holds the library, the key and the endpoint
BackendConfigured == azure_env.has_azure /\ azure_env.key /\ azure_env.endpoint

\* C9: when the document has no readable embedded image, or no vision
\* backend is configured, run_validation never enters the analysis or the
\* reconciliation, hands no image to the vision service, and returns no
\* analysis and no issue.
C9_EarlyExit ==
    ReadableImages = {} \/ ~BackendConfigured
        => /\ vpc \in {"start", "done"}
           /\ vision_calls = <<>>
           /\ vpc = "done"
                => /\ returned.analyses = <<>> /\ returned.issues = <<>>
                   /\ self_analyses = <<>> /\ validation_issues = <<>>

\* run_validation has returned from a document with images, in an
\* environment that holds the key and lacks the endpoint
C9_Witness ==
    /\ vpc = "done"
    /\ ReadableImages # {}
    /\ azure_env.key /\ ~azure_env.endpoint
    /\ extracted_images # <<>>
    /\ returned.analyses = <<>> /\ returned.issues = <<>>

\* the analyses of the first n extracted images from what the service did:
\* one per image whose call gave parsed content, in image order
RECURSIVE SuccessesUpTo(_)
SuccessesUpTo(n) ==
    IF n = 0 THEN <<>>
    ELSE SuccessesUpTo(n - 1) \o
         (IF responses[n].kind = "parsed"
          THEN <<[image_name |-> extracted_images[n].image_id,
                  sheet_name |-> extracted_images[n].sheet_name,
                  analysis_type |-> responses[n].parsed.type,
                  extracted_data |-> responses[n].parsed.data,
                  raw_response |-> responses[n].parsed.summary]>>
          ELSE <<>>)

\* C10: whatever calls fail, every extracted image is handed to the vision
\* service, in order, and the analyses recorded are those of the images
\* whose call succeeded, one per image, in image order.
C10_PerImageIsolation ==
    /\ vpc = "analyzing"
        => /\ analyses = SuccessesUpTo(img_idx - 1)
           /\ vision_calls = [i \in 1..(img_idx - 1) |-> extracted_images[i].image_id]
    /\ vpc \in {"validating", "done"} /\ extracted_images # <<>> /\ use_azure
        => /\ self_analyses = SuccessesUpTo(Len(extracted_images))
           /\ vision_calls = [i \in 1..Len(extracted_images) |-> extracted_images[i].image_id]
    /\ vpc = "done" /\ extracted_images # <<>> /\ use_azure
        => returned.analyses = SuccessesUpTo(Len(extracted_images))

\* run_validation has returned after a success followed by a failure
C10_Witness ==
    /\ vpc = "done"
    /\ Len(extracted_images) = 2
    /\ responses[1].kind = "parsed" /\ responses[2].kind = "error"
    /\ Len(returned.analyses) = 1
    /\ returned.analyses[1].image_name = extracted_images[1].image_id

-----------------------------------------------------------------------------
(* Documents with cells of every kind in the number columns                *)

\* rows per sheet
MalformedRows == 2

MalformedLabels == {StrCell(<<"f","a","i","l","e","d"," ","u","p","d","a","t","e">>), StrCell(<<"D","u","m","p","s"," ","t","o","d","a","y">>), StrCell(<<"n","o","t","e">>)}

MalformedCells ==
    {NoneCell, StrCell(<<"a","b","c">>), StrCell(<<"N">>), StrCell(<<"1"," ","2","0","0",",","5">>), StrCell(<<"n","a","n">>),
     StrCell(<<"i","n","f">>), StrCell(<<"-","I","n","f","i","n","i","t","y">>), IntCell(3), FloatCell(-5)}

MalformedRowSet ==
    {MkRow(l, c3, NoneCell, NoneCell, NoneCell) : l \in MalformedLabels, c3 \in MalformedCells}

InitMalformed ==
    /\ workbook \in {<<Sheet("S1", rows)>> : rows \in SeqsUpTo(MalformedRowSet, MalformedRows)}
    /\ config = NoneConfig
    /\ AuditorInit
    /\ NoOperation
    /\ ValidatorIdle

SpecMalformed == InitMalformed /\ [][NextAudit]_vars

-----------------------------------------------------------------------------
(* The row loop never aborts: claim C17 (checked under SpecMalformed)      *)

\* C17, as stated: whatever the cells of a row hold, audit_sheet raises no
\* exception, so that the loop goes on to the rows after it.
C17_AsStated == pc # "raised"

-----------------------------------------------------------------------------
(* Documents whose rows name one category, several, or none                *)

\* rows per sheet
ClassifyRows == 2

ClassifyLabels ==
    {<<"S","M","2","1"," ","s","y","s","t","e","m"," ","l","o","g">>, <<"S","M","3","7"," ","j","o","b","s",","," ","s","e","e"," ","S","M","2","1">>, <<"f","a","i","l","e","d"," ","u","p","d","a","t","e"," ","j","o","b">>,
     <<"O","l","d"," ","l","o","c","k"," ","e","n","t","r","i","e","s"," ","(","S","M","1","2",")">>, <<"s","p","o","o","l"," ","s","e","r","v","e","r"," ","s","t","a","t","u","s">>, <<"R","e","s","p","o","n","s","e"," ","T","i","m","e",","," ","f","a","i","l","e","d"," ","e","m","a","i","l">>,
     <<"r","u","n","n","i","n","g"," ","a","p","p","l","i","c","a","t","i","o","n"," ","s","e","r","v","e","r">>, <<"n","o","t","e">>}

ClassifyVocabulary ==
    {MkRow(StrCell(l), StrCell(<<"N">>), NoneCell, NoneCell, NoneCell) : l \in ClassifyLabels}

InitClassify ==
    /\ workbook \in {<<Sheet("S1", rows)>> :
                        rows \in SeqsUpTo(ClassifyVocabulary, ClassifyRows)}
    /\ config = NoneConfig
    /\ AuditorInit
    /\ NoOperation
    /\ ValidatorIdle

SpecClassify == InitClassify /\ [][NextAudit]_vars

-----------------------------------------------------------------------------
(* First match wins: claim C20 (checked under SpecClassify)                *)

\* the places in the enumeration of the categories whose pattern matches
\* the row's lowercase text
MatchingPlaces(row) ==
    {p \in 1..Len(CHECK_PATTERNS) : PatternMatches(FoldedPatterns[p], Lower(RowText(row)))}

\* the category at the earliest matching place, none when nothing matches
EarliestCategory(row) ==
    IF MatchingPlaces(row) = {} THEN NoCheckType
    ELSE CHECK_PATTERNS[CHOOSE p \in MatchingPlaces(row) :
                            \A q \in MatchingPlaces(row) : p <= q].name

\* C20: for every audited row, identify_check_type gives the category at the
\* earliest place of the enumeration whose pattern matches the row's text,
\* and none when no pattern matches; the loop's category after a row that
\* matches is that category, and the row's justification finding carries it.
C20_FirstMatchWins ==
    \A i \in AuditedRows :
        /\ identify_check_type(CurSheet.rows[i]) = EarliestCategory(CurSheet.rows[i])
        /\ MatchingPlaces(CurSheet.rows[i]) # {}
            => /\ \A k \in 1..Len(FindingsOf(i)) :
                     FindingsOf(i)[k].check_type = EarliestCategory(CurSheet.rows[i])
               /\ i = row_idx - 1 => current_check_type = EarliestCategory(CurSheet.rows[i])

\* a row matching two categories has been audited and is attributed the
\* earlier one, SM37, although the later one, SM13, matches a longer phrase
C20_Witness ==
    \E i \in AuditedRows :
        /\ MatchingPlaces(CurSheet.rows[i]) = {5, 9}
        /\ FindingsOf(i) # <<>>
        /\ FindingsOf(i)[1].check_type = "sm37"

-----------------------------------------------------------------------------
(* Documents with values at and around the limits, under overrides         *)

\* rows per sheet
LimitRows == 1

LimitRowSet ==
    {MkRow(StrCell(<<"R","e","s","p"," ","T","i","m","e">>), v, NoneCell, NoneCell, NoneCell) :
        v \in {IntCell(10), IntCell(11), IntCell(1000), IntCell(1001), StrCell(<<"i","n","f">>)}}
    \cup {MkRow(StrCell(<<"D","u","m","p","s"," ","t","o","d","a","y">>), v, NoneCell, NoneCell, NoneCell) :
        v \in {IntCell(10), IntCell(11), IntCell(50), IntCell(51)}}
    \cup {MkRow(StrCell(<<"D","u","m","p","s"," ","y","e","s","t","e","r","d","a","y">>), v, NoneCell, NoneCell, NoneCell) :
        v \in {IntCell(10), IntCell(11), IntCell(100), IntCell(101)}}
    \cup {MkRow(StrCell(<<"F","a","i","l","e","d"," ","u","p","d","a","t","e">>), v, NoneCell, NoneCell, NoneCell) :
        v \in {IntCell(0), IntCell(1), StrCell(<<"i","n","f">>)}}
    \cup {MkRow(StrCell(<<"C","P","I","C","E","R","R">>), v, NoneCell, NoneCell, NoneCell) :
        v \in {IntCell(0), IntCell(1)}}

\* no Configuration, one that overrides the three limits the engine asks
\* for, and one that names the dump metrics as VALIDATION_RULES does
LimitConfigs ==
    {NoneConfig,
     DictConfig(TRUE, FALSE, {ThresholdEntry("response_time_smlg", TRUE, 10),
                              ThresholdEntry("dumps_today", TRUE, 10),
                              ThresholdEntry("dumps_yesterday", TRUE, 10)}),
     DictConfig(TRUE, FALSE, {ThresholdEntry("dump_count_today", TRUE, 10),
                              ThresholdEntry("dump_count_yesterday", TRUE, 10)})}

InitLimits ==
    /\ workbook \in {<<Sheet("S1", rows)>> : rows \in SeqsUpTo(LimitRowSet, LimitRows)}
    /\ config \in LimitConfigs
    /\ AuditorInit
    /\ NoOperation
    /\ ValidatorIdle

SpecLimits == InitLimits /\ [][NextAudit]_vars

-----------------------------------------------------------------------------
(* Overrides change limits only: claim C19 (checked under SpecLimits)      *)

\* the rows of the current sheet the loop has evaluated, the one it
\* raised on included
EvaluatedRows ==
    CASE pc = "rows"   -> 1..(row_idx - 1)
      [] pc = "raised" -> 1..row_idx
      [] OTHER         -> {}

\* the limit of the metric the engine asks for: the Configuration's
\* thresholds.<metric>.max when it holds one, else the default
ResolvedLimit(cfg, metric, default) ==
    IF cfg.kind = "dict" /\ cfg.hasThresholds
          /\ \E e \in cfg.thresholds : e.metric = metric /\ e.hasMax
    THEN (CHOOSE e \in cfg.thresholds : e.metric = metric /\ e.hasMax).max
    ELSE default

\* the value strictly exceeds the limit
Exceeds(num, limit) ==
    \/ num.k = "fin" /\ num.v > 10 * limit
    \/ num = Infinity(1)

\* the row at index i has a finding of this category and severity
HasFinding(i, check_type, severity) ==
    \E k \in 1..Len(FindingsOf(i)) :
        FindingsOf(i)[k].check_type = check_type /\ FindingsOf(i)[k].severity = severity

\* the row at index i has a finding of this category of another severity
HasOtherSeverity(i, check_type, severity) ==
    \E k \in 1..Len(FindingsOf(i)) :
        FindingsOf(i)[k].check_type = check_type /\ FindingsOf(i)[k].severity # severity

\* the rule on a row whose text contains every part: a finding of the
\* severity exactly when the value exceeds the limit, never another one
RuleHolds(i, parts, limit, check_type, severity) ==
    With(CurSheet.rows[i], LAMBDA row :
        (\A p \in parts : Contains(Lower(RowText(row)), p))
            /\ extract_numeric_value(row).k # "none"
        => /\ HasFinding(i, check_type, severity)
                <=> Exceeds(extract_numeric_value(row), limit)
           /\ ~HasOtherSeverity(i, check_type, severity))

LimitsRespected(i) ==
    /\ RuleHolds(i, {<<"r","e","s","p"," ","t","i","m","e">>},
                 ResolvedLimit(config, "response_time_smlg", 1000), "smlg", "warning")
    /\ RuleHolds(i, {<<"d","u","m","p">>, <<"t","o","d","a","y">>},
                 ResolvedLimit(config, "dumps_today", 50), "st22", "warning")
    /\ RuleHolds(i, {<<"d","u","m","p">>, <<"y","e","s","t","e","r","d","a","y">>},
                 ResolvedLimit(config, "dumps_yesterday", 100), "st22", "warning")
    /\ RuleHolds(i, {<<"f","a","i","l","e","d"," ","u","p","d","a","t","e">>}, 0, "sm13", "critical")
    /\ RuleHolds(i, {<<"c","p","i","c","e","r","r">>}, 0, "sm58", "critical")

\* C19, as stated: under every Configuration, a response-time or dump row
\* has a warning exactly when its value strictly exceeds the resolved
\* limit, and a failed-update or cpicerr row has a critical finding exactly
\* when its value is > 0.
C19_AsStated == \A i \in EvaluatedRows : LimitsRespected(i)

-----------------------------------------------------------------------------
(* Documents whose screenshots meet a service that may not answer          *)

HangEnvs ==
    {[has_azure |-> TRUE, key |-> TRUE, endpoint |-> TRUE],
     [has_azure |-> TRUE, key |-> FALSE, endpoint |-> TRUE]}

HangResponses == AnalyzeResponses \cup {NeverReturns}

InitHang ==
    /\ workbook \in {<<SheetWithImages("S1", <<>>, images)>> :
                        images \in SeqsUpTo(AnalyzeImages, MaxImages)}
    /\ config = NoneConfig
    /\ AuditorInit
    /\ NoOperation
    /\ azure_env \in HangEnvs
    /\ responses \in [1..Len(extract_images_from_excel(workbook)) -> HangResponses]
    /\ ValidatorInit

\* every step of run_validation that can be taken is taken in the end
SpecHang == InitHang /\ [][NextAwait]_vars /\ WF_vars(NextAwait)

-----------------------------------------------------------------------------
(* A vision call that never returns: claim C18 (checked under SpecHang)    *)

\* C18, as stated: run_validation reaches its terminal state in the end,
\* also when a vision call never returns.
C18_AsStated == <>(vpc = "done")

-----------------------------------------------------------------------------
(* Documents handed to the entry points                                    *)

\* rows on the first sheet
OpsRows == 2

\* a clean row that reports no failed data backup; a negative response
\* without justification on a slow response time (a critical finding, then
\* a warning); a negative response with a brief justification on failed
\* updates (a warning, then a critical finding); a row the audit raises on
OpsRowSet ==
    {MkRow(StrCell(<<"F","a","i","l","e","d"," ","d","a","t","a"," ","b","a","c","k","u","p">>), IntCell(0), NoneCell, NoneCell, NoneCell),
     MkRow(StrCell(<<"R","e","s","p"," ","T","i","m","e">>), StrCell(<<"N">>), IntCell(2000), NoneCell, NoneCell),
     MkRow(StrCell(<<"F","a","i","l","e","d"," ","u","p","d","a","t","e">>), StrCell(<<"N">>), IntCell(3), NoneCell, StrCell(<<"o","k">>)),
     MkRow(StrCell(<<"D","u","m","p","s"," ","t","o","d","a","y">>), StrCell(<<"i","n","f">>), NoneCell, NoneCell, NoneCell)}

OpsImages == {<<>>, <<Image(TRUE, "png")>>}

\* the sheets after the first: none, an empty one, one with a warning
OpsMoreSheets ==
    {<<>>, <<Sheet("S2", <<>>)>>,
     <<Sheet("S2", <<MkRow(StrCell(<<"D","u","m","p","s"," ","t","o","d","a","y">>), IntCell(60), NoneCell, NoneCell,
                           NoneCell)>>)>>}

OpsWorkbooks ==
    {<<SheetWithImages("S1", rows, images)>> \o more :
        rows \in SeqsUpTo(OpsRowSet, OpsRows), images \in OpsImages, more \in OpsMoreSheets}

\* a workbook for the runs that fail before or around the audit
OpsPlainWorkbook ==
    <<SheetWithImages("S1",
        <<MkRow(StrCell(<<"R","e","s","p"," ","T","i","m","e">>), StrCell(<<"N">>), IntCell(2000), NoneCell, NoneCell)>>,
        <<Image(TRUE, "png")>>)>>

Configured == [has_azure |-> TRUE, key |-> TRUE, endpoint |-> TRUE]

\* the service fails, reads two failed data backups, or sees error marks
OpsResponses ==
    {ServiceError,
     Parsed(ScreenshotAnalysisResponse("backup", <<"g","r","i","d">>,
                ExtractedScreenshotData(Some(2), NoValue, NoValue, FALSE, <<>>))),
     Parsed(ScreenshotAnalysisResponse("backup", <<"g","r","i","d">>,
                ExtractedScreenshotData(NoValue, NoValue, NoValue, TRUE, <<<<"r","e","d">>>>)))}

\* no auditor and no validator is built yet, no entry point was called
NothingBuilt ==
    /\ pc = "idle"
    /\ sheet_idx = 1
    /\ row_idx = 1
    /\ current_check_type = NoCheckType
    /\ issues = <<>>
    /\ self_issues = <<>>
    /\ metadata = <<>>
    /\ use_azure = FALSE
    /\ vpc = "idle"
    /\ extracted_images = <<>>
    /\ img_idx = 1
    /\ analyses = <<>>
    /\ self_analyses = <<>>
    /\ an_idx = 1
    /\ val_issues = <<>>
    /\ validation_issues = <<>>
    /\ vision_calls = <<>>
    /\ returned = NothingValidated
    /\ op = "none"
    /\ outcome = NoResult
    /\ screenshot_stats = NoStats
    /\ calls = 0
    /\ last_issues = <<>>
    /\ frames = <<>>

InitEntry ==
    /\ \/ /\ excel_path = Openable
          /\ imported = TRUE
          /\ azure_env = Configured
          /\ workbook \in OpsWorkbooks
       \/ /\ excel_path \in {Openable, Locator(TRUE, TRUE, FALSE)}
          /\ imported \in BOOLEAN
          /\ azure_env \in {Configured, NoAzure}
          /\ workbook = OpsPlainWorkbook
       \/ /\ excel_path \in {Locator(FALSE, FALSE, TRUE), Locator(TRUE, FALSE, TRUE)}
          /\ imported \in BOOLEAN
          /\ azure_env = Configured
          /\ workbook = <<>>
    /\ config = NoneConfig
    /\ responses \in [1..Len(extract_images_from_excel(workbook)) -> OpsResponses]
    /\ NothingBuilt

SpecEntry == InitEntry /\ [][NextEntry]_vars

-----------------------------------------------------------------------------
(* Running twice: claim C11 (checked under SpecEntry)                      *)

\* the entry point has been called again on the same document and
\* audit_all_sheets has returned; for the command-line run, the screenshot
\* findings have joined the list as they had in the first run
SecondRunAudited ==
    /\ calls >= 2
    /\ \/ op = "audit_daily_checks" /\ pc = "done"
       \/ op = "main" /\ pc = "merged"

\* C11: when an entry point audits the same document under the same
\* Configuration again, the list of findings it has accumulated is the list
\* the previous run had accumulated: the same findings in the same order.
C11_Idempotent == SecondRunAudited => self_issues = last_issues

\* the second remote audit of a document with several findings has
\* accumulated them
C11_Witness ==
    /\ calls = 2 /\ op = "audit_daily_checks" /\ pc = "done"
    /\ Len(self_issues) >= 3
    /\ self_issues = last_issues

-----------------------------------------------------------------------------
(* The composed report: claims C12, C13, C14 (checked under SpecEntry)     *)

\* an entry point has composed a report; self_issues is the list it was
\* composed from
Composed == outcome.kind = "report"

\* the lines of the report of this kind about this sheet
LinesOf(kind, sheet_name) ==
    SelectSeq(outcome.lines, LAMBDA l : l.kind = kind /\ l.sheet = sheet_name)

\* the sheet has a finding of this severity in the accumulated list
HasSeverity(sheet_name, severity) ==
    \E k \in 1..Len(self_issues) :
        self_issues[k].sheet = sheet_name /\ self_issues[k].severity = severity

\* the status the sheet is due
StatusDue(sheet_name) ==
    IF HasSeverity(sheet_name, "critical") THEN "[CRITICAL]"
    ELSE IF HasSeverity(sheet_name, "warning") THEN "[WARNING]"
    ELSE "[OK]"

\* C12: in a composed report every sheet has one status line, and it says
\* critical when the sheet has a critical finding, else warning when it
\* has a warning, else ok; screenshot findings count as the others do.
C12_SheetStatus ==
    Composed =>
        \A i \in 1..Len(workbook) :
            /\ Len(LinesOf("sheet", workbook[i].name)) = 1
            /\ LinesOf("sheet", workbook[i].name)[1].tag = StatusDue(workbook[i].name)

\* the finding comes from a screenshot
FromScreenshot(f) == f.check_type = "screenshot_validation"

\* a report of the command-line run where the first sheet is critical
\* through a screenshot finding alone and the second has only a warning
C12_Witness ==
    /\ Composed /\ op = "main" /\ Len(workbook) = 2
    /\ LinesOf("sheet", workbook[1].name)[1].tag = "[CRITICAL]"
    /\ \A k \in 1..Len(self_issues) :
          self_issues[k].sheet = workbook[1].name => FromScreenshot(self_issues[k])
    /\ LinesOf("sheet", workbook[2].name)[1].tag = "[WARNING]"


\* the findings accumulated for the sheet, in the order of accumulation
AccumulatedFor(sheet_name) == SelectSeq(self_issues, LAMBDA f : f.sheet = sheet_name)

\* the findings of the sheet as the report must list them: the critical
\* ones in their order, then the warnings in theirs
ListingDue(sheet_name) ==
    SelectSeq(AccumulatedFor(sheet_name), LAMBDA f : f.severity = "critical")
    \o SelectSeq(AccumulatedFor(sheet_name), LAMBDA f : f.severity = "warning")

\* the line lists the finding
Lists(line, f) ==
    /\ line.nums = <<f.row>>
    /\ line.tag = f.check_type
    /\ line.texts = <<f.message>>

\* C13: in a composed report the finding lines of every sheet are its
\* critical findings in the order of accumulation followed by its warnings
\* in the order of accumulation: as many lines as the sheet has findings,
\* each finding on one line.
C13_ListingOrder ==
    Composed =>
        \A i \in 1..Len(workbook) :
            /\ Len(LinesOf("issue", workbook[i].name)) = Len(AccumulatedFor(workbook[i].name))
            /\ \A k \in 1..Len(LinesOf("issue", workbook[i].name)) :
                  Lists(LinesOf("issue", workbook[i].name)[k], ListingDue(workbook[i].name)[k])

\* a report of a sheet whose findings were accumulated as critical,
\* warning, warning, critical
C13_Witness ==
    /\ Composed
    /\ Len(AccumulatedFor("S1")) >= 4
    /\ AccumulatedFor("S1")[1].severity = "critical"
    /\ AccumulatedFor("S1")[2].severity = "warning"
    /\ AccumulatedFor("S1")[3].severity = "warning"
    /\ AccumulatedFor("S1")[4].severity = "critical"
    /\ AccumulatedFor("S1")[2].message # AccumulatedFor("S1")[3].message

\* the row's numeric value, if it has one, is within every default limit
WithinDefaults(row) ==
    With(extract_numeric_value(row), LAMBDA num :
    With(Lower(RowText(row)), LAMBDA row_text :
        num.k = "none"
        \/ /\ ~(Contains(row_text, <<"r","e","s","p"," ","t","i","m","e">>) /\ Exceeds(num, 1000))
           /\ ~(Contains(row_text, <<"d","u","m","p">>) /\ Contains(row_text, <<"t","o","d","a","y">>) /\ Exceeds(num, 50))
           /\ ~(Contains(row_text, <<"d","u","m","p">>) /\ Contains(row_text, <<"y","e","s","t","e","r","d","a","y">>)
                    /\ Exceeds(num, 100))
           /\ ~(Contains(row_text, <<"f","a","i","l","e","d"," ","u","p","d","a","t","e">>) /\ Exceeds(num, 0))
           /\ ~(Contains(row_text, <<"c","p","i","c","e","r","r">>) /\ Exceeds(num, 0))
           /\ ~(Contains(row_text, <<"s","y","s","f","a","i","l">>) /\ Exceeds(num, 0))
           /\ ~(Contains(row_text, <<"o","l","d"," ","l","o","c","k">>) /\ Exceeds(num, 0))))

\* a document of one sheet without negative responses whose metrics are
\* all within the default limits, audited without a Configuration
CleanDocument ==
    /\ Len(workbook) = 1
    /\ config = NoneConfig
    /\ \A r \in 1..Len(workbook[1].rows) :
          /\ ~NegativeRow(workbook[1].rows[r])
          /\ WithinDefaults(workbook[1].rows[r])

\* every sheet has its status line, and a sheet without findings is shown
\* as passed
EverySheetListed ==
    \A i \in 1..Len(workbook) :
        /\ Len(LinesOf("sheet", workbook[i].name)) = 1
        /\ AccumulatedFor(workbook[i].name) = <<>>
            => /\ LinesOf("sheet", workbook[i].name)[1].tag = "[OK]"
               /\ Len(LinesOf("passed", workbook[i].name)) = 1

\* the report shows the only sheet as passed and counts no finding
PassedWithNoFinding ==
    /\ LinesOf("sheet", workbook[1].name)[1].tag = "[OK]"
    /\ LinesOf("total", "")[1].nums = <<0>>

\* C14, as stated: every sheet appears in a composed report, one without
\* findings as passed, and the report of a clean one-sheet document shows
\* the sheet as passed and a total of 0 findings.
C14_AsStated ==
    Composed => EverySheetListed /\ (CleanDocument => PassedWithNoFinding)

\* no finding of the list comes from a screenshot
NoScreenshotFinding == \A k \in 1..Len(self_issues) : ~FromScreenshot(self_issues[k])

\* C14, amended: every sheet appears in a composed report, one without
\* findings as passed; the report of a clean one-sheet document shows the
\* sheet as passed and a total of 0 findings when the validation of its
\* screenshots has added no finding.
C14_Amended ==
    Composed => EverySheetListed /\ (CleanDocument /\ NoScreenshotFinding => PassedWithNoFinding)

\* the report of a clean one-sheet document with rows, run from the
\* command line with a screenshot that yields no issue: passed, 0 findings
C14_Witness ==
    /\ Composed /\ op = "main" /\ CleanDocument
    /\ Len(workbook[1].rows) >= 1
    /\ Len(workbook[1].images) = 1
    /\ PassedWithNoFinding

-----------------------------------------------------------------------------
(* The remote operations return text: claim C15 (checked under SpecEntry)  *)

RemoteOperation == op \in {"audit_daily_checks", "validate_screenshots"}

\* the outcome is one line of text that names an error
OneErrorString ==
    /\ outcome.kind = "error"
    /\ Len(outcome.lines) = 1
    /\ outcome.lines[1].kind = "error"

\* the outcome is a whole report: the document could be opened, every sheet
\* was audited to its end, every sheet has its section, every finding its
\* line, and the total counts them all
CompleteReport ==
    /\ outcome.kind = "report"
    /\ excel_path.exists /\ excel_path.opens
    /\ sheet_idx > Len(workbook)
    /\ Len(metadata) = Len(workbook)
    /\ \A i \in 1..Len(workbook) :
          /\ Len(LinesOf("sheet", workbook[i].name)) = 1
          /\ Len(LinesOf("issue", workbook[i].name)) = Len(AccumulatedFor(workbook[i].name))
    /\ LinesOf("total", "")[1].nums = <<Len(self_issues)>>
    /\ \A k \in 1..Len(outcome.lines) : outcome.lines[k].kind # "error"

\* C15: whatever the locator names, a remote operation that has ended has
\* returned text and no exception has left it; audit_daily_checks has
\* returned either a whole report or one error string, and a report only
\* for a document that exists and opens.
C15_AlwaysText ==
    RemoteOperation =>
        /\ outcome.kind \in {"pending", "report", "summary", "error"}
        /\ outcome.kind = "error" => OneErrorString
        /\ op = "audit_daily_checks" /\ outcome.kind # "pending"
            => OneErrorString \/ CompleteReport
        /\ op = "validate_screenshots" /\ outcome.kind = "summary"
            => excel_path.exists /\ excel_path.opens

\* the audit raised on a later row, after findings had been gathered, and
\* the operation returned the one error string
C15_Witness ==
    /\ op = "audit_daily_checks"
    /\ OneErrorString
    /\ outcome.lines[1].tag = "executing audit"
    /\ excel_path = Openable
    /\ issues # <<>>

-----------------------------------------------------------------------------
(* Screenshot findings in the report: claim C16 (checked under SpecEntry)  *)

\* the analyses the validator keeps of the first n images of the document
RECURSIVE AnalysesDue(_, _)
AnalysesDue(images, n) ==
    IF n = 0 THEN <<>>
    ELSE AppendAnalysis(AnalysesDue(images, n - 1), images[n],
                        analyze_image_with_azure(TRUE, responses[n]))

\* the issues the validator raises on the analyses from the i-th on
RECURSIVE IssuesDue(_, _)
IssuesDue(list, i) ==
    IF i > Len(list) THEN <<>>
    ELSE ValidateOne(workbook, list[i]) \o IssuesDue(list, i + 1)

\* the issues the Screenshot Cross-Validator raises for the document, where
\* it can be imported and has its backend
ValidatorIssues ==
    IF imported /\ AzureConfigured(azure_env)
    THEN With(extract_images_from_excel(workbook), LAMBDA images :
            IssuesDue(AnalysesDue(images, Len(images)), 1))
    ELSE <<>>

\* the finding is the issue as the aggregated list holds it: row 0, the
\* issue's severity, its message
HoldsIssue(f, issue) ==
    /\ FromScreenshot(f)
    /\ f.sheet = issue.sheet
    /\ f.row = 0
    /\ f.severity = issue.severity
    /\ f.message = <<"[","S","C","R","E","E","N","S","H","O","T","]"," ">> \o issue.message

\* C16, as stated: whenever an entry point composes a report, every issue
\* the Screenshot Cross-Validator raises for the document is in the
\* aggregated list, with row 0 and its severity, and the report lists it
\* and counts it.
C16_AsStated ==
    Composed =>
        \A k \in 1..Len(ValidatorIssues) :
            \E j \in 1..Len(self_issues) :
                /\ HoldsIssue(self_issues[j], ValidatorIssues[k])
                /\ \E n \in 1..Len(outcome.lines) :
                      outcome.lines[n].kind = "issue" /\ Lists(outcome.lines[n], self_issues[j])
                /\ LinesOf("total", "")[1].nums[1] >= Len(ValidatorIssues)

-----------------------------------------------------------------------------
(* Documents whose rows meet several threshold rules at once               *)

\* rows per sheet
TriggerRows == 1

TriggerLabels ==
    {StrCell(<<"D","u","m","p","s"," ","t","o","d","a","y"," ","/"," ","y","e","s","t","e","r","d","a","y">>), StrCell(<<"D","u","m","p","s"," ","t","o","d","a","y">>),
     StrCell(<<"F","a","i","l","e","d"," ","u","p","d","a","t","e"," ","S","Y","S","F","A","I","L">>), StrCell(<<"O","l","d"," ","l","o","c","k"," ","r","e","s","p"," ","t","i","m","e">>),
     StrCell(<<"B","a","c","k","u","p">>)}

TriggerRowSet ==
    {MkRow(l, c3, c4, NoneCell, status) :
        l \in TriggerLabels,
        c3 \in {NoneCell, StrCell(<<"N">>), IntCell(0), IntCell(60), IntCell(1200),
                StrCell(<<"i","n","f">>)},
        c4 \in {NoneCell, StrCell(<<"n">>), IntCell(200)},
        status \in {NoneCell, StrCell(<<"o","k">>), StrCell(<<"e","x","p","l","a","i","n","e","d"," ","i","n"," ","t","i","c","k","e","t"," ","4","7","1","1">>)}}

InitTriggers ==
    /\ workbook \in {<<Sheet("S1", rows)>> : rows \in SeqsUpTo(TriggerRowSet, TriggerRows)}
    /\ config = NoneConfig
    /\ AuditorInit
    /\ NoOperation
    /\ ValidatorIdle

SpecTriggers == InitTriggers /\ [][NextAudit]_vars

-----------------------------------------------------------------------------
(* The threshold rules are independent: claim C21 (checked under           *)
(* SpecTriggers)                                                           *)

\* the findings of the row at index i whose message starts with the prefix
FindingsWith(i, prefix) ==
    Count(FindingsOf(i), LAMBDA f : StartsWith(f.message, prefix))

\* a rule whose text and value condition holds has one finding on the row,
\* one whose condition does not hold has none
OnePerRule(i, holds, prefix) == FindingsWith(i, prefix) = IF holds THEN 1 ELSE 0

\* the six rules on the row at index i, under the default limits
EachRuleOnce(i) ==
    With(CurSheet.rows[i], LAMBDA row :
      With(RowText(row), LAMBDA text :
        With(extract_numeric_value(row), LAMBDA num :
            /\ OnePerRule(i, Contains(text, <<"r","e","s","p"," ","t","i","m","e">>) /\ Exceeds(num, DEFAULT_RESP_TIME),
                          <<"R","e","s","p","o","n","s","e"," ","t","i","m","e"," ">>)
            /\ OnePerRule(i, /\ Contains(text, <<"d","u","m","p">>) /\ Contains(text, <<"t","o","d","a","y">>)
                             /\ Exceeds(num, DEFAULT_DUMPS_TODAY),
                          <<"H","i","g","h"," ","d","u","m","p"," ","c","o","u","n","t"," ","t","o","d","a","y",":"," ">>)
            /\ OnePerRule(i, /\ Contains(text, <<"d","u","m","p">>) /\ Contains(text, <<"y","e","s","t","e","r","d","a","y">>)
                             /\ Exceeds(num, DEFAULT_DUMPS_YESTERDAY),
                          <<"H","i","g","h"," ","d","u","m","p"," ","c","o","u","n","t"," ","y","e","s","t","e","r","d","a","y",":"," ">>)
            /\ OnePerRule(i, Contains(text, <<"f","a","i","l","e","d"," ","u","p","d","a","t","e">>) /\ Exceeds(num, 0),
                          <<"F","a","i","l","e","d"," ","u","p","d","a","t","e","s"," ","d","e","t","e","c","t","e","d",":"," ">>)
            /\ OnePerRule(i, /\ Contains(text, <<"c","p","i","c","e","r","r">>) \/ Contains(text, <<"s","y","s","f","a","i","l">>)
                             /\ Exceeds(num, 0),
                          <<"t","R","F","C"," ","e","r","r","o","r","s"," ","d","e","t","e","c","t","e","d",":"," ">>)
            /\ OnePerRule(i, /\ Contains(text, <<"o","l","d"," ","l","o","c","k">>)
                             /\ Exceeds(num, 0)
                             /\ BlankStatus(row),
                          <<"O","l","d"," ","l","o","c","k","s"," ","p","r","e","s","e","n","t"," ","(">>))))

\* the justification finding of the row at index i is there exactly when
\* the row is negative and its status is blank or brief
JustificationAsDue(i) ==
    With(CurSheet.rows[i], LAMBDA row :
        Count(FindingsOf(i), IsJustificationFinding)
            = IF NegativeRow(row) /\ (BlankStatus(row) \/ Len(StatusText(row)) < BRIEF_LIMIT)
              THEN 1 ELSE 0)

\* C21, as stated: a row with a numeric value has exactly one threshold
\* finding for each rule whose text and value condition holds (two warnings
\* for a row naming "dump", "today" and "yesterday" above both limits), and
\* every row has its justification finding or not whether or not a numeric
\* value was found.
C21_AsStated ==
    \A i \in EvaluatedRows :
        /\ JustificationAsDue(i)
        /\ extract_numeric_value(CurSheet.rows[i]).k # "none" => EachRuleOnce(i)

-----------------------------------------------------------------------------
(* Documents with lock rows, explained and unexplained                     *)

\* rows per sheet
LockRows == 1

LockRowSet ==
    {MkRow(l, c3, c4, NoneCell, status) :
        l \in {StrCell(<<"N","u","m","b","e","r"," ","o","f"," ","o","l","d"," ","l","o","c","k","s">>), StrCell(<<"O","l","d"," ","l","o","c","k"," ","e","n","t","r","i","e","s">>),
               StrCell(<<"L","o","c","k","s">>)},
        c3 \in {NoneCell, StrCell(<<"N">>), IntCell(0), IntCell(3), FloatCell(5),
                StrCell(<<"2">>), StrCell(<<"i","n","f">>)},
        c4 \in {NoneCell, IntCell(4)},
        status \in {NoneCell, StrCell(<<" ">>), StrCell(<<NBSP>>), StrCell(<<"x">>),
                    StrCell(<<"k","n","o","w","n",","," ","s","e","e"," ","t","i","c","k","e","t">>)}}

InitLocks ==
    /\ workbook \in {<<Sheet("S1", rows)>> : rows \in SeqsUpTo(LockRowSet, LockRows)}
    /\ config = NoneConfig
    /\ AuditorInit
    /\ NoOperation
    /\ ValidatorIdle

SpecLocks == InitLocks /\ [][NextAudit]_vars

-----------------------------------------------------------------------------
(* The old-lock rule: claim C22 (checked under SpecLocks)                  *)

IsOldLockWarning(f) ==
    /\ f.severity = "warning"
    /\ f.check_type = "sm12"
    /\ StartsWith(f.message, <<"O","l","d"," ","l","o","c","k","s"," ","p","r","e","s","e","n","t"," ","(">>)

\* the old-lock rule on the row at index i, whose text contains "old lock"
\* and whose numeric value is num
OldLockRuleHolds(i, num) ==
    With(CurSheet.rows[i], LAMBDA row :
        /\ Exceeds(num, 0) /\ BlankStatus(row)
              => Count(FindingsOf(i), IsOldLockWarning) = 1
        /\ StatusText(row) # <<>> \/ num = Finite(0)
              => Count(FindingsOf(i), IsOldLockWarning) = 0)

\* C22, as stated: a row whose text contains "old lock" with a numeric
\* value > 0 has exactly one old-lock warning when its status column holds
\* no justification, and has none when the status column holds a non-blank
\* text or when the value is 0.
C22_AsStated ==
    \A i \in EvaluatedRows :
        Contains(RowText(CurSheet.rows[i]), <<"o","l","d"," ","l","o","c","k">>)
            /\ extract_numeric_value(CurSheet.rows[i]).k # "none"
        => OldLockRuleHolds(i, extract_numeric_value(CurSheet.rows[i]))

-----------------------------------------------------------------------------
(* Documents with numbers and texts in the three value columns             *)

\* rows per sheet
NumericRows == 1

NumericRowSet ==
    {MkRow(StrCell(<<"R","e","s","p"," ","T","i","m","e">>), c3, c4, c5, NoneCell) :
        c3 \in {NoneCell, StrCell(<<"N">>), StrCell(<<"a","b","c">>), StrCell(<<"1",",","5">>),
                StrCell(<<"1"," ","2","0","0">>), StrCell(<<"1",",","0","0","0",".","5">>), StrCell(<<>>), IntCell(7),
                StrCell(<<"i","n","f">>)},
        c4 \in {NoneCell, StrCell(<<"x">>), StrCell(<<"2",",","5">>), IntCell(3)},
        c5 \in {NoneCell, FloatCell(45), StrCell(<<"9">>)}}

\* every positive response time is above the limit
NumericConfig == DictConfig(TRUE, FALSE, {ThresholdEntry("response_time_smlg", TRUE, 0)})

InitNumeric ==
    /\ workbook \in {<<Sheet("S1", rows)>> : rows \in SeqsUpTo(NumericRowSet, NumericRows)}
    /\ config = NumericConfig
    /\ AuditorInit
    /\ NoOperation
    /\ ValidatorIdle

SpecNumeric == InitNumeric /\ [][NextAudit]_vars

-----------------------------------------------------------------------------
(* The first numeric column: claim C23 (checked under SpecNumeric)         *)

\* the cell holds a number, or a text that parses as one once "," is
\* replaced by "." and the spaces are removed
Qualifies(cell) ==
    \/ cell.t \in {"int", "float"}
    \/ cell.t = "str" /\ ParseFloat(Cleaned(cell.s)).k # "none"

\* the number such a cell holds
NumberOf(cell) ==
    IF cell.t = "str" THEN ParseFloat(Cleaned(cell.s)) ELSE Finite(CellTenths(cell))

\* the value of the first of columns 3, 4, 5 that qualifies
FirstQualifying(row) ==
    IF \E c \in 3..5 : Qualifies(row[c + 1])
    THEN NumberOf(row[1 + CHOOSE c \in 3..5 :
                        Qualifies(row[c + 1]) /\ \A d \in 3..(c - 1) : ~Qualifies(row[d + 1])])
    ELSE NoNumber

\* the findings of the threshold rules on the row at index i
ThresholdFindings(i) == SelectSeq(FindingsOf(i), LAMBDA f : ~IsJustificationFinding(f))

\* C23: for every audited row, the value the threshold rules work on is
\* that of the first of columns 3, 4, 5 holding a number or a text that
\* parses as one after "," is replaced by "." and the spaces are removed,
\* the columns that do not parse being skipped: the response-time warning
\* of the row names that value, and a row with no such column has no
\* threshold finding.
C23_FirstNumericColumn ==
    \A i \in AuditedRows :
        With(FirstQualifying(CurSheet.rows[i]), LAMBDA v :
            /\ v.k = "none" => ThresholdFindings(i) = <<>>
            /\ Exceeds(v, 0) =>
                  /\ Len(ThresholdFindings(i)) = 1
                  /\ ThresholdFindings(i)[1].message
                        = <<"R","e","s","p","o","n","s","e"," ","t","i","m","e"," ">> \o NumStr(v) \o <<"m","s"," ","e","x","c","e","e","d","s"," ","0","m","s"," ","t","h","r","e","s","h","o","l","d">>)

\* a row has been audited whose column 3 holds a text that does not parse
\* and whose column 4 holds "2,5": its warning names 2.5
C23_Witness ==
    \E i \in AuditedRows :
        /\ CurSheet.rows[i][4] = StrCell(<<"a","b","c">>)
        /\ CurSheet.rows[i][5] = StrCell(<<"2",",","5">>)
        /\ Len(ThresholdFindings(i)) = 1
        /\ ThresholdFindings(i)[1].message = <<"R","e","s","p","o","n","s","e"," ","t","i","m","e"," ","2",".","5","m","s"," ","e","x","c","e","e","d","s"," ","0","m","s"," ","t","h","r","e","s","h","o","l","d">>

-----------------------------------------------------------------------------
(* Documents of two sheets, each with its own counts and screenshot        *)

\* rows per sheet
PairRows == 1

PairRowSet ==
    {MkRow(StrCell(<<"F","a","i","l","e","d"," ","d","a","t","a"," ","b","a","c","k","u","p">>), IntCell(0), NoneCell, NoneCell, NoneCell),
     MkRow(StrCell(<<"F","a","i","l","e","d"," ","d","a","t","a"," ","b","a","c","k","u","p">>), IntCell(2), NoneCell, NoneCell, NoneCell),
     MkRow(StrCell(<<"N","u","m","b","e","r"," ","o","f"," ","F","a","i","l","e","d"," ","J","o","b","s",":"," ","T","o","d","a","y">>), IntCell(3), NoneCell, NoneCell, NoneCell)}

PairImages == {<<>>, <<Image(TRUE, "png")>>}

PairEnvs == {NoAzure, [has_azure |-> TRUE, key |-> TRUE, endpoint |-> TRUE]}

\* what the service answers for a screenshot: 'unknown' is the type
\* analyze_all_images gives a result without one (line 205)
PairResponses ==
    {Refusal}
    \cup {Parsed(ScreenshotAnalysisResponse(type, <<"g","r","i","d">>,
                ExtractedScreenshotData(shown[1], NoValue, NoValue, shown[2],
                    IF shown[2] THEN <<<<"r","e","d">>>> ELSE <<>>))) :
            type \in {"backup", "other", "unknown"},
            shown \in {<<Some(0), TRUE>>, <<Some(2), FALSE>>, <<Some(2), TRUE>>}}

InitPair ==
    /\ workbook \in {<<SheetWithImages("S1", rows1, images1),
                       SheetWithImages("S2", rows2, images2)>> :
                        rows1 \in SeqsUpTo(PairRowSet, PairRows),
                        rows2 \in SeqsUpTo(PairRowSet, PairRows),
                        images1 \in PairImages, images2 \in PairImages}
    /\ config = NoneConfig
    /\ AuditorInit
    /\ NoOperation
    /\ azure_env \in PairEnvs
    /\ responses \in [1..Len(extract_images_from_excel(workbook)) ->
                        IF AzureConfigured(azure_env) THEN PairResponses ELSE {Refusal}]
    /\ ValidatorInit

SpecPair == InitPair /\ [][NextShot]_vars

-----------------------------------------------------------------------------
(* Each analysis against its own sheet: claim C24 (checked under SpecPair) *)

\* the sheet the image of the analysis at index k is embedded in
OwnSheet(k) ==
    workbook[CHOOSE i \in 1..Len(workbook) :
                workbook[i].name = self_analyses[k].image_name.sheet]

\* the counts the analysis at index k extracted, the sheet reports, and
\* that differ
Differing(k, reported) ==
    {m \in 1..Len(COUNT_METRICS) :
        /\ self_analyses[k].extracted_data[COUNT_METRICS[m].key].some
        /\ reported[COUNT_METRICS[m].key].some
        /\ self_analyses[k].extracted_data[COUNT_METRICS[m].key].v
              # reported[COUNT_METRICS[m].key].v}

\* the issues of the analysis at index k are those its extraction and the
\* reported values give: one discrepancy, naming both values, for each
\* differing count, and the warning of the error indicators
ReconciledAgainst(k, reported) ==
    /\ \A m \in 1..Len(COUNT_METRICS) :
          Count(IssuesOf(k), LAMBDA f :
                    f.severity = "critical" /\ Contains(f.message, COUNT_METRICS[m].noun))
              = IF m \in Differing(k, reported) THEN 1 ELSE 0
    /\ \A m \in Differing(k, reported) :
          Count(IssuesOf(k), LAMBDA f :
                    IsDiscrepancyOf(f, COUNT_METRICS[m].noun,
                        self_analyses[k].extracted_data[COUNT_METRICS[m].key].v,
                        reported[COUNT_METRICS[m].key].v)) = 1
    /\ Count(IssuesOf(k), IsErrorIndicatorWarning)
          = IF self_analyses[k].extracted_data.has_errors /\ SumOfReported(reported) = 0
            THEN 1 ELSE 0
    /\ Len(IssuesOf(k)) = Cardinality(Differing(k, reported))
                            + Count(IssuesOf(k), IsErrorIndicatorWarning)

\* C24: an analysis validate_against_reports has gone through has no issue
\* when its type is 'unknown', whatever it extracted and whatever its sheet
\* reports; an analysis of any other type has the issues its extraction
\* gives against the reported values of the sheet its image is embedded
\* in, each naming that sheet.
C24_OwnSheetOnly ==
    \A k \in Reconciled :
        IF self_analyses[k].analysis_type = "unknown"
        THEN IssuesOf(k) = <<>>
        ELSE /\ With(extract_reported_values(OwnSheet(k)), LAMBDA reported :
                    ReconciledAgainst(k, reported))
             /\ \A j \in 1..Len(IssuesOf(k)) : IssuesOf(k)[j].sheet = OwnSheet(k).name

\* the validation has ended on a document whose sheets report 0 and 2
\* failed data backups: the screenshot of the first, of type 'unknown',
\* shows 2 and has no issue; the screenshot of the second, of type 'other',
\* shows 0 and has the discrepancy against the 2 of its own sheet
C24_Witness ==
    /\ vpc = "done"
    /\ Len(self_analyses) = 2
    /\ extract_reported_values(workbook[1]).failed_data_backup = Some(0)
    /\ extract_reported_values(workbook[2]).failed_data_backup = Some(2)
    /\ self_analyses[1].analysis_type = "unknown"
    /\ self_analyses[1].extracted_data.failed_data_backup = Some(2)
    /\ self_analyses[1].extracted_data.has_errors
    /\ self_analyses[2].analysis_type = "other"
    /\ self_analyses[2].extracted_data.failed_data_backup = Some(0)
    /\ Len(validation_issues) = 1
    /\ validation_issues[1].sheet = "S2"
    /\ validation_issues[1].reported_value = 2

-----------------------------------------------------------------------------
(* audit_sheet: one activation per sheet                                   *)

\* audit_sheet keeps its findings and its sticky category in locals
\* (lines 256-257): frames[s] holds those of the activation for the sheet
\* at index s, whenever its caller starts it and lets it run
NoFrame ==
    [pc |-> "idle", row_idx |-> 1, current_check_type |-> NoCheckType, issues |-> <<>>]

\* a variant: the category is taken over from the first activation started
NewFrame_carrying(others) ==
    With({s \in 1..Len(others) : others[s].pc # "idle"}, LAMBDA started :
        [pc |-> "rows", row_idx |-> 1,
         current_check_type |->
            IF started = {} THEN NoCheckType
            ELSE others[CHOOSE s \in started : \A t \in started : s <= t].current_check_type,
         issues |-> <<>>])

\* issues = [], current_check_type = None (lines 256-257), whatever the
\* other activations hold
NewFrame(others) ==
    [pc |-> "rows", row_idx |-> 1, current_check_type |-> NoCheckType, issues |-> <<>>]

\* audit_sheet is called for the sheet at index s (lines 253-259)
CallAuditSheet(s) ==
    /\ frames[s].pc = "idle"
    /\ frames' = [frames EXCEPT ![s] = NewFrame(frames)]
    /\ metadata' = StoreMetadata(metadata, workbook[s].name, extract_metadata(workbook[s]))
    /\ UNCHANGED <<workbook, config, pc, sheet_idx, row_idx, current_check_type, issues,
                   self_issues, shotVars, excel_path, imported, op, outcome,
                   screenshot_stats, calls, last_issues>>

\* one iteration of the row loop of that activation (lines 261-373)
StepAuditSheet(s) ==
    /\ frames[s].pc = "rows"
    /\ frames[s].row_idx <= Len(workbook[s].rows)
    /\ \E r \in {AuditRowResult(workbook[s].name, RowNo(frames[s].row_idx),
                                 workbook[s].rows[frames[s].row_idx],
                                 frames[s].current_check_type, config)} :
           frames' = [frames EXCEPT ![s] =
                        [pc |-> IF r.raised THEN "raised" ELSE "rows",
                         row_idx |-> IF r.raised THEN @.row_idx ELSE @.row_idx + 1,
                         current_check_type |-> r.cct,
                         issues |-> @.issues \o r.issues]]
    /\ UNCHANGED <<workbook, config, pc, sheet_idx, row_idx, current_check_type, issues,
                   self_issues, metadata, shotVars, excel_path, imported, op, outcome,
                   screenshot_stats, calls, last_issues>>

\* that activation returns its findings (line 375) and its caller extends
\* self.issues with them (line 381)
ReturnAuditSheet(s) ==
    /\ frames[s].pc = "rows"
    /\ frames[s].row_idx > Len(workbook[s].rows)
    /\ frames' = [frames EXCEPT ![s].pc = "returned"]
    /\ self_issues' = self_issues \o frames[s].issues
    /\ UNCHANGED <<workbook, config, pc, sheet_idx, row_idx, current_check_type, issues,
                   metadata, shotVars, excel_path, imported, op, outcome,
                   screenshot_stats, calls, last_issues>>

NextSheets ==
    \/ \E s \in 1..Len(workbook) : CallAuditSheet(s)
    \/ \E s \in 1..Len(workbook) : StepAuditSheet(s)
    \/ \E s \in 1..Len(workbook) : ReturnAuditSheet(s)

-----------------------------------------------------------------------------
(* Documents of two sheets with labelled and unlabelled rows               *)

\* rows per sheet
SheetRows == 2

SheetRowSet ==
    {MkRow(StrCell(<<"S","M","3","7">>), NoneCell, NoneCell, NoneCell, NoneCell),
     MkRow(StrCell(<<"r","o","w">>), StrCell(<<"N">>), NoneCell, NoneCell, NoneCell),
     MkRow(StrCell(<<"D","u","m","p","s"," ","t","o","d","a","y">>), IntCell(60), NoneCell, NoneCell, NoneCell)}

InitSheets ==
    /\ workbook \in {<<Sheet("S1", rows1), Sheet("S2", rows2)>> :
                        rows1 \in SeqsUpTo(SheetRowSet, SheetRows),
                        rows2 \in SeqsUpTo(SheetRowSet, SheetRows)}
    /\ config = NoneConfig
    /\ AuditorInit
    /\ ValidatorIdle
    /\ excel_path = Openable
    /\ imported = TRUE
    /\ op = "none"
    /\ outcome = NoResult
    /\ screenshot_stats = NoStats
    /\ calls = 0
    /\ last_issues = <<>>
    /\ frames = [s \in 1..Len(workbook) |-> NoFrame]

SpecSheets == InitSheets /\ [][NextSheets]_vars

-----------------------------------------------------------------------------
(* Sheets are evaluated independently: claim C25 (checked under SpecSheets) *)

\* the findings and the category of a sheet audited alone, after its
\* first n rows: a function of its rows and of the Configuration
RECURSIVE AloneUpTo(_, _, _)
AloneUpTo(sheet, cfg, n) ==
    IF n = 0 THEN [issues |-> <<>>, cct |-> NoCheckType]
    ELSE With(AloneUpTo(sheet, cfg, n - 1), LAMBDA before :
            With(AuditRowResult(sheet.name, RowNo(n), sheet.rows[n], before.cct, cfg),
                 LAMBDA r : [issues |-> before.issues \o r.issues, cct |-> r.cct]))

\* the activation for the sheet at index s holds what the sheet audited
\* alone gives after the rows it has gone through
AsAlone(s) ==
    With(AloneUpTo(workbook[s], config, frames[s].row_idx - 1), LAMBDA alone :
        /\ frames[s].issues = alone.issues
        /\ frames[s].current_check_type = alone.cct)

\* the findings of the sheet at index s in the aggregated list
AggregatedFor(s) == SelectSeq(self_issues, LAMBDA f : f.sheet = workbook[s].name)

\* C25: in whatever order the sheets are audited and however the
\* activations of audit_sheet are interleaved, an activation holds exactly
\* the findings and the sticky category its own sheet's rows and the
\* Configuration give, the category being unset at its start; the findings
\* it returns are those of the sheet audited alone.
C25_Stateless ==
    \A s \in 1..Len(workbook) :
        /\ frames[s].pc = "rows" => AsAlone(s)
        /\ frames[s].pc = "returned"
              => AggregatedFor(s)
                    = AloneUpTo(workbook[s], config, Len(workbook[s].rows)).issues

\* both activations are in the middle of their sheets: the first has met
\* the SM37 header, the second has a finding of its unlabelled first row
\* with no category
C25_Witness ==
    /\ frames[1].pc = "rows" /\ frames[1].row_idx = 2 /\ Len(workbook[1].rows) = 2
    /\ frames[2].pc = "rows" /\ frames[2].row_idx = 2 /\ Len(workbook[2].rows) = 2
    /\ frames[1].current_check_type = "sm37"
    /\ frames[2].current_check_type = NoCheckType
    /\ Len(frames[2].issues) = 1
    /\ frames[2].issues[1].check_type = "unknown"

====
